---------------------------- MODULE Spec2Model ----------------------------
(***************************************************************************)
(* A model of the workflow-file parser: the walk over the generic (HCL)    *)
(* syntax tree that extracts actions and workflows (parseRoot and below),  *)
(* the validation passes (analyzeDependencies, checkCircularDependencies,  *)
(* checkActions, checkFlows), the stable sort of the diagnostics and the   *)
(* final pass/fail decision of Parse.                                      *)
(*                                                                         *)
(* Strings that come from the parsed file are sequences of one-character   *)
(* strings (<<".", "/", "x">> is "./x"), so that prefix tests, splitting   *)
(* and character classes are computed as the code computes them.  Format   *)
(* strings of diagnostics and the names the code itself supplies to them   *)
(* (type names, "action"/"workflow") are plain TLA+ strings.               *)
(***************************************************************************)
EXTENDS Integers, Sequences, FiniteSets, TLC

(***************************************************************************)
(* Bounds of the model.                                                    *)
(***************************************************************************)
MaxItems == 3
MaxGraphActions == 3
MaxSecretActions == 2
MaxAttrs == 2
MaxEnvActions == 1
MaxBlocks == 2
MaxCallItems == 1
MaxNeedsActions == 3
\* lines between the first lines of two consecutive top-level items
LineStride == 10

(***************************************************************************)
(* Program constants.                                                      *)
(***************************************************************************)
minVersion == 0
maxVersion == 0
maxSecrets == 100

WARNING == 0
ERROR == 1
FATAL == 2

(***************************************************************************)
(* Strings.                                                                *)
(***************************************************************************)
kwVersion == <<"v","e","r","s","i","o","n">>
kwAction == <<"a","c","t","i","o","n">>
kwWorkflow == <<"w","o","r","k","f","l","o","w">>
kwUses == <<"u","s","e","s">>
kwNeeds == <<"n","e","e","d","s">>
kwRuns == <<"r","u","n","s">>
kwArgs == <<"a","r","g","s">>
kwEnv == <<"e","n","v">>
kwSecrets == <<"s","e","c","r","e","t","s">>
kwOn == <<"o","n">>
kwResolves == <<"r","e","s","o","l","v","e","s">>

UpperChars == <<"A","B","C","D","E","F","G","H","I","J","K","L","M",
                "N","O","P","Q","R","S","T","U","V","W","X","Y","Z">>
LowerChars == <<"a","b","c","d","e","f","g","h","i","j","k","l","m",
                "n","o","p","q","r","s","t","u","v","w","x","y","z">>
DigitChars == <<"0","1","2","3","4","5","6","7","8","9">>

Range(f) == {f[i] : i \in DOMAIN f}

IndexOf(seq, c) == IF \E i \in DOMAIN seq : seq[i] = c
                   THEN CHOOSE i \in DOMAIN seq : seq[i] = c
                   ELSE 0

ToLowerChar(c) == IF IndexOf(UpperChars, c) # 0
                  THEN LowerChars[IndexOf(UpperChars, c)]
                  ELSE c

ToLower(s) == [i \in DOMAIN s |-> ToLowerChar(s[i])]

HasPrefix(s, p) == /\ Len(s) >= Len(p)
                   /\ SubSeq(s, 1, Len(p)) = p

TrimPrefix(s, p) == IF HasPrefix(s, p) THEN SubSeq(s, Len(p) + 1, Len(s)) ELSE s

\* strings.SplitN(s, sep, n) for a one-character separator; n <= 0 is "no limit"
RECURSIVE SplitN(_, _, _)
SplitN(s, sep, n) ==
    IF n = 1 \/ IndexOf(s, sep) = 0
    THEN <<s>>
    ELSE LET i == CHOOSE j \in DOMAIN s :
                      s[j] = sep /\ \A k \in 1..(j - 1) : s[k] # sep
         IN  <<SubSeq(s, 1, i - 1)>>
               \o SplitN(SubSeq(s, i + 1, Len(s)), sep, IF n <= 0 THEN n ELSE n - 1)

Split(s, sep) == SplitN(s, sep, -1)

IsSpace(c) == c \in {" ", "\t", "\n"}

\* strings.Fields(s): the maximal runs of non-space characters
RECURSIVE Fields(_)
Fields(s) ==
    IF s = <<>> THEN <<>>
    ELSE IF IsSpace(s[1]) THEN Fields(Tail(s))
    ELSE LET stops == {j \in DOMAIN s : IsSpace(s[j])}
             e == IF stops = {} THEN Len(s) + 1
                  ELSE CHOOSE j \in stops : \A k \in stops : j <= k
         IN  <<SubSeq(s, 1, e - 1)>> \o Fields(SubSeq(s, e, Len(s)))

\* strconv-style rendering of a small integer, as fmt's %d prints it
RECURSIVE Itoa(_)
Itoa(n) == IF n < 0 THEN <<"-">> \o Itoa(-n)
           ELSE IF n < 10 THEN <<DigitChars[n + 1]>>
           ELSE Itoa(n \div 10) \o <<DigitChars[(n % 10) + 1]>>

(***************************************************************************)
(* The generic syntax tree (hcl/ast).  A node is a literal with a token    *)
(* type, a list of nodes or an object holding items; an item has one or    *)
(* more key tokens, is an assignment or not, and has a value node.  Every  *)
(* node and item carries the line of its token in the file.                *)
(***************************************************************************)
Lit(tok, str, num, line) ==
    [kind |-> "literal", tok |-> tok, str |-> str, num |-> num,
     elems |-> <<>>, items |-> <<>>, line |-> line]
StrLit(s, line) == Lit("STRING", s, 0, line)
NumLit(n, line) == Lit("NUMBER", <<>>, n, line)
ListNode(elems, line) ==
    [kind |-> "list", tok |-> "", str |-> <<>>, num |-> 0,
     elems |-> elems, items |-> <<>>, line |-> line]
ObjNode(items, line) ==
    [kind |-> "object", tok |-> "", str |-> <<>>, num |-> 0,
     elems |-> <<>>, items |-> items, line |-> line]

\* a key token: an IDENT (bare word) or a STRING (quoted); value is the
\* word, or the text between the quotes
Ident(s) == [type |-> "IDENT", value |-> s]
Quoted(s) == [type |-> "STRING", value |-> s]

Item(keys, assign, val, line) ==
    [keys |-> keys, assign |-> assign, val |-> val, line |-> line]

(***************************************************************************)
(* Diagnostics.                                                            *)
(***************************************************************************)
Diag(sev, line, fmt, kinds, args) ==
    [Severity |-> sev, Line |-> line, fmt |-> fmt, kinds |-> kinds, args |-> args]
newFatal(line, fmt, kinds, args) == Diag(FATAL, line, fmt, kinds, args)
newError(line, fmt, kinds, args) == Diag(ERROR, line, fmt, kinds, args)
newWarning(line, fmt, kinds, args) == Diag(WARNING, line, fmt, kinds, args)

\* ErrorPos.Line of a node; an object item is located by its value
posFromNode(node) == node.line
posFromItem(item) == posFromNode(item.val)
posFromObjectItem(item) == item.line

typename(node) ==
    CASE node.kind = "list" -> "list"
      [] node.kind = "object" -> "object"
      [] node.kind = "literal" ->
           CASE node.tok = "STRING" -> "string"
             [] node.tok = "NUMBER" -> "number"
             [] node.tok = "FLOAT" -> "float"
             [] node.tok = "BOOL" -> "bool"
             [] OTHER -> "heredoc"

(***************************************************************************)
(* Literal coercions.  Every operator that can emit diagnostics takes the  *)
(* diagnostic list so far (ps.Errors) and returns it, extended, in .errs.  *)
(***************************************************************************)
TokName(t) == IF t = "STRING" THEN "string" ELSE "number"

literalCast(node, t, errs) ==
    IF node.kind # "literal" \/ node.tok # t
    THEN [ok |-> FALSE, str |-> <<>>, num |-> 0,
          errs |-> Append(errs, newError(posFromNode(node), "Expected %s, got %s",
                                         <<TokName(t), typename(node)>>, <<>>))]
    ELSE [ok |-> TRUE, str |-> node.str, num |-> node.num, errs |-> errs]

literalToString(node, errs) == literalCast(node, "STRING", errs)

literalToInt(node, errs) == literalCast(node, "NUMBER", errs)

identString(t, errs) ==
    IF t.type \in {"STRING", "IDENT"}
    THEN [str |-> t.value, errs |-> errs]
    ELSE [str |-> <<>>,
          errs |-> Append(errs, newError(0, "Each identifier should be a string, got %s",
                                         <<t.type>>, <<>>))]

\* The diagnostics that the iterations 1..n of a loop append, in order,
\* when iteration i appends the sequence D[i] of at most width diagnostics
\* whatever the iterations before it appended.
Emitted(n, width, D) ==
    LET slots == [k \in 1..(n * width) |-> k]
        iter(k) == ((k - 1) \div width) + 1
        pos(k) == ((k - 1) % width) + 1
        kept == SelectSeq(slots, LAMBDA k : pos(k) <= Len(D[iter(k)]))
    IN  [j \in DOMAIN kept |-> D[iter(kept[j])][pos(kept[j])]]

\* the loop over list.List: the strings are kept in order, every other
\* element draws the diagnostic of literalToString
literalToStringArray(node, promoteScalars, errs) ==
    IF node.kind = "literal"
    THEN IF promoteScalars /\ node.tok = "STRING"
         THEN [ok |-> TRUE, arr |-> <<node.str>>, errs |-> errs]
         ELSE [ok |-> FALSE, arr |-> <<>>,
               errs |-> Append(errs, newError(posFromNode(node), "Expected list, got %s",
                                              <<typename(node)>>, <<>>))]
    ELSE IF node.kind # "list"
    THEN [ok |-> FALSE, arr |-> <<>>,
          errs |-> Append(errs, newError(posFromNode(node), "Expected list, got %s",
                                         <<typename(node)>>, <<>>))]
    ELSE LET strs == SelectSeq(node.elems, LAMBDA e : literalToString(e, <<>>).ok)
         IN  [ok |-> TRUE,
              arr |-> [i \in DOMAIN strs |-> literalToString(strs[i], <<>>).str],
              errs |-> errs \o Emitted(Len(node.elems), 1,
                                       [i \in DOMAIN node.elems |->
                                          literalToString(node.elems[i], <<>>).errs])]

isAssignment(item) == Len(item.keys) = 1 /\ item.assign

\* checkAssignmentsOnly over the items of one object from item i on,
\* descending into the objects that assignments hold
RECURSIVE checkAssignmentsOnly(_, _, _, _)
checkAssignmentsOnly(items, i, actionID, errs) ==
    IF i > Len(items) THEN errs
    ELSE LET item == items[i]
         IN  IF ~isAssignment(item)
             THEN checkAssignmentsOnly(items, i + 1, actionID,
                      Append(errs,
                          IF actionID = <<>>
                          THEN newError(posFromObjectItem(item),
                                        "Each attribute of the object must be an assignment",
                                        <<>>, <<>>)
                          ELSE newError(posFromObjectItem(item),
                                        "Each attribute of action `%s' must be an assignment",
                                        <<>>, <<actionID>>)))
             ELSE IF item.val.kind = "object"
             THEN checkAssignmentsOnly(items, i + 1, actionID,
                      checkAssignmentsOnly(item.val.items, 1, actionID, errs))
             ELSE checkAssignmentsOnly(items, i + 1, actionID, errs)

\* a map[string]string: a function from its keys
EmptyMap == <<>>
MapPut(m, k, v) == [x \in (DOMAIN m) \cup {k} |-> IF x = k THEN v ELSE m[x]]

RECURSIVE stringMapLoop(_, _, _, _)
stringMapLoop(node, i, ret, errs) ==
    IF i > Len(node.items) THEN [map |-> ret, errs |-> errs]
    ELSE LET item == node.items[i]
         IN  IF ~isAssignment(item)
             THEN stringMapLoop(node, i + 1, ret, errs)
             ELSE LET r == literalToString(item.val, errs)
                  IN  IF ~r.ok
                      THEN stringMapLoop(node, i + 1, ret, r.errs)
                      ELSE LET k == identString(item.keys[1], r.errs)
                           IN  IF k.str = <<>>
                               THEN stringMapLoop(node, i + 1, ret, k.errs)
                               ELSE stringMapLoop(node, i + 1,
                                        MapPut(ret, k.str, r.str),
                                        IF k.str \in DOMAIN ret
                                        THEN Append(k.errs,
                                                 newWarning(posFromNode(node),
                                                     "Environment variable `%s' redefined",
                                                     <<>>, <<k.str>>))
                                        ELSE k.errs)

\* .isNil: the nil map returned for a value that is no object
literalToStringMap(node, errs) ==
    IF node.kind # "object"
    THEN [isNil |-> TRUE, map |-> EmptyMap,
          errs |-> Append(errs, newError(posFromNode(node), "Expected object, got %s",
                                         <<typename(node)>>, <<>>))]
    ELSE LET r == stringMapLoop(node, 1, EmptyMap,
                                checkAssignmentsOnly(node.items, 1, <<>>, errs))
         IN  [isNil |-> FALSE, map |-> r.map, errs |-> r.errs]

(***************************************************************************)
(* The model records (package model) with the entries of ps.posMap that    *)
(* belong to them: Pos is the line of posMap[action], NeedsPos the line of *)
(* posMap[&action.Needs], and so on; 0 is the zero ErrorPos of a field     *)
(* that has no entry.                                                      *)
(***************************************************************************)
NoUses == [Repo |-> <<>>, Path |-> <<>>, Ref |-> <<>>, Image |-> <<>>, Raw |-> <<>>]
NoCommand == [Raw |-> <<>>, Parsed |-> <<>>]

NewAction(id, line) ==
    [Identifier |-> id, Uses |-> NoUses, Runs |-> NoCommand, Args |-> NoCommand,
     Needs |-> <<>>, Env |-> EmptyMap, Secrets |-> <<>>,
     Pos |-> line, NeedsPos |-> 0, EnvPos |-> 0, SecretsPos |-> 0]

\* ResolvesNil: Resolves is the nil slice (never assigned, or assigned from
\* a value that failed to parse)
NewWorkflow(id) ==
    [Identifier |-> id, On |-> <<>>, Resolves |-> <<>>, ResolvesNil |-> TRUE,
     Pos |-> 0, OnPos |-> 0, ResolvesPos |-> 0]

\* Uses.Form()
Form(u) == IF u.Image # <<>> THEN "docker"
           ELSE IF u.Repo # <<>> THEN "cross_repo"
           ELSE IF u.Path # <<>> THEN "in_repo"
           ELSE "unknown"

(***************************************************************************)
(* Attribute parsers of an action block.                                   *)
(***************************************************************************)
UsesFormatError(node) ==
    newError(posFromNode(node),
             "The `uses' attribute must be a path, a Docker image, or owner/repo@ref",
             <<>>, <<>>)

\* the left part split at every "/", not into at most three parts
usesFields_splitEverySlash(u, strVal) ==
    LET u1 == [u EXCEPT !.Raw = strVal]
        tok == Split(strVal, "@")
        tok2 == Split(tok[1], "/")
    IN  IF HasPrefix(strVal, <<".", "/">>)
        THEN [uses |-> [u1 EXCEPT !.Path = strVal], ok |-> TRUE]
        ELSE IF HasPrefix(strVal, <<"d","o","c","k","e","r",":","/","/">>)
        THEN [uses |-> [u1 EXCEPT !.Image =
                           TrimPrefix(strVal, <<"d","o","c","k","e","r",":","/","/">>)],
              ok |-> TRUE]
        ELSE IF Len(tok) # 2 THEN [uses |-> u1, ok |-> FALSE]
        ELSE IF Len(tok2) < 2 THEN [uses |-> u1, ok |-> FALSE]
        ELSE [uses |-> [u1 EXCEPT !.Ref = tok[2],
                                  !.Repo = tok2[1] \o <<"/">> \o tok2[2],
                                  !.Path = IF Len(tok2) >= 3 THEN <<"/">> \o tok2[3]
                                           ELSE <<"/">>],
              ok |-> TRUE]

\* the fields parseUses writes for a non-blank string value, on top of the
\* Uses value u the action holds
usesFields(u, strVal) ==
    LET u1 == [u EXCEPT !.Raw = strVal]
        tok == Split(strVal, "@")
        tok2 == SplitN(tok[1], "/", 3)
    IN  IF HasPrefix(strVal, <<".", "/">>)
        THEN [uses |-> [u1 EXCEPT !.Path = strVal], ok |-> TRUE]
        ELSE IF HasPrefix(strVal, <<"d","o","c","k","e","r",":","/","/">>)
        THEN [uses |-> [u1 EXCEPT !.Image =
                           TrimPrefix(strVal, <<"d","o","c","k","e","r",":","/","/">>)],
              ok |-> TRUE]
        ELSE IF Len(tok) # 2 THEN [uses |-> u1, ok |-> FALSE]
        ELSE IF Len(tok2) < 2 THEN [uses |-> u1, ok |-> FALSE]
        ELSE [uses |-> [u1 EXCEPT !.Ref = tok[2],
                                  !.Repo = tok2[1] \o <<"/">> \o tok2[2],
                                  !.Path = IF Len(tok2) = 3 THEN <<"/">> \o tok2[3]
                                           ELSE <<"/">>],
              ok |-> TRUE]

parseUses(action, node, errs) ==
    LET e1 == IF action.Uses.Path # <<>>
              THEN Append(errs, newWarning(posFromNode(node),
                                           "`uses' redefined in action `%s'",
                                           <<>>, <<action.Identifier>>))
              ELSE errs
        r == literalToString(node, e1)
        f == usesFields(action.Uses, r.str)
    IN  IF ~r.ok THEN [action |-> action, errs |-> r.errs]
        ELSE IF r.str = <<>>
        THEN [action |-> action,
              errs |-> Append(r.errs, newError(posFromNode(node),
                                  "`uses' value in action `%s' cannot be blank",
                                  <<>>, <<action.Identifier>>))]
        ELSE [action |-> [action EXCEPT !.Uses = f.uses],
              errs |-> IF f.ok THEN r.errs ELSE Append(r.errs, UsesFormatError(node))]

\* parseCommand for dest = &action.Runs or &action.Args; returns the new
\* value of *dest in .cmd
parseCommand(action, dest, name, node, allowBlank, errs) ==
    LET e1 == IF Len(dest.Parsed) > 0
              THEN Append(errs, newWarning(posFromNode(node),
                                           "`%s' redefined in action `%s'",
                                           <<>>, <<name, action.Identifier>>))
              ELSE errs
        l == literalToStringArray(node, FALSE, e1)
        r == literalToString(node, e1)
    IN  IF node.kind = "list"
        THEN [cmd |-> IF l.ok THEN [dest EXCEPT !.Parsed = l.arr] ELSE dest,
              errs |-> l.errs]
        ELSE IF ~r.ok
        THEN [cmd |-> dest,
              errs |-> Append(r.errs, newError(posFromNode(node),
                                  "The `%s' attribute must be a string or a list",
                                  <<>>, <<name>>))]
        ELSE IF r.str = <<>> /\ ~allowBlank
        THEN [cmd |-> dest,
              errs |-> Append(r.errs, newError(posFromNode(node),
                                  "`%s' value in action `%s' cannot be blank",
                                  <<>>, <<name, action.Identifier>>))]
        ELSE [cmd |-> [Raw |-> r.str, Parsed |-> Fields(r.str)], errs |-> r.errs]

parseActionAttribute(name, action, val, errs) ==
    CASE name = kwUses -> parseUses(action, val, errs)
      [] name = kwNeeds ->
           LET r == literalToStringArray(val, TRUE, errs)
           IN  [action |-> IF r.ok
                           THEN [action EXCEPT !.Needs = r.arr,
                                               !.NeedsPos = posFromNode(val)]
                           ELSE action,
                errs |-> r.errs]
      [] name = kwRuns ->
           LET r == parseCommand(action, action.Runs, name, val, FALSE, errs)
           IN  [action |-> [action EXCEPT !.Runs = r.cmd], errs |-> r.errs]
      [] name = kwArgs ->
           LET r == parseCommand(action, action.Args, name, val, TRUE, errs)
           IN  [action |-> [action EXCEPT !.Args = r.cmd], errs |-> r.errs]
      [] name = kwEnv ->
           LET r == literalToStringMap(val, errs)
           IN  [action |-> [action EXCEPT !.Env = IF r.isNil THEN @ ELSE r.map,
                                          !.EnvPos = posFromNode(val)],
                errs |-> r.errs]
      [] name = kwSecrets ->
           LET r == literalToStringArray(val, FALSE, errs)
           IN  [action |-> IF r.ok
                           THEN [action EXCEPT !.Secrets = r.arr,
                                               !.SecretsPos = posFromNode(val)]
                           ELSE action,
                errs |-> r.errs]
      [] OTHER ->
           [action |-> action,
            errs |-> Append(errs, newWarning(posFromNode(val),
                                "Unknown action attribute `%s'", <<>>, <<name>>))]

(***************************************************************************)
(* Blocks.                                                                 *)
(***************************************************************************)
\* key.Token.Text: a quoted key keeps its quotes
TokenText(key) == IF key.type = "STRING"
                  THEN <<"\"">> \o key.value \o <<"\"">>
                  ELSE key.value

parseIdentifier(key, line, errs) ==
    LET id == TokenText(key)
    IN  IF Len(id) < 3 \/ id[1] # "\"" \/ id[Len(id)] # "\""
        THEN [id |-> <<>>,
              errs |-> Append(errs, newError(line, "Invalid format for identifier `%s'",
                                             <<>>, <<id>>))]
        ELSE [id |-> SubSeq(id, 2, Len(id) - 1), errs |-> errs]

\* .isNil: no object is returned (obj == nil)
parseBlockPreamble(item, nodeType, errs) ==
    LET r == parseIdentifier(item.keys[2], posFromObjectItem(item), errs)
    IN  IF r.id = <<>> THEN [id |-> <<>>, isNil |-> TRUE, errs |-> r.errs]
        ELSE IF item.val.kind # "object"
        THEN [id |-> <<>>, isNil |-> TRUE,
              errs |-> Append(r.errs, newError(posFromNode(item.val),
                                  "Each %s must have an { ...  } block",
                                  <<nodeType>>, <<>>))]
        ELSE [id |-> r.id, isNil |-> FALSE,
              errs |-> checkAssignmentsOnly(item.val.items, 1, r.id, r.errs)]

RECURSIVE actionAttributes(_, _, _, _)
actionAttributes(items, i, action, errs) ==
    IF i > Len(items) THEN [action |-> action, errs |-> errs]
    ELSE LET k == identString(items[i].keys[1], errs)
             r == parseActionAttribute(k.str, action, items[i].val, k.errs)
         IN  actionAttributes(items, i + 1, r.action, r.errs)

actionifyItem(item, errs) ==
    LET pre == parseBlockPreamble(item, "action", errs)
        r == actionAttributes(item.val.items, 1,
                              NewAction(pre.id, posFromItem(item)), pre.errs)
    IN  IF pre.isNil
        THEN [isNil |-> TRUE, action |-> NewAction(<<>>, 0), errs |-> pre.errs]
        ELSE [isNil |-> FALSE, action |-> r.action, errs |-> r.errs]

\* returns the new *value in .value
parseRequiredString(value, val, nodeType, name, id, errs) ==
    LET e1 == IF value # <<>>
              THEN Append(errs, newWarning(posFromNode(val), "`%s' redefined in %s `%s'",
                                           <<nodeType>>, <<name, id>>))
              ELSE errs
        r == literalToString(val, e1)
    IN  IF ~r.ok
        THEN [ok |-> FALSE, value |-> value,
              errs |-> Append(r.errs, newError(posFromNode(val),
                                  "Invalid format for `%s' in %s `%s', expected string",
                                  <<nodeType>>, <<name, id>>))]
        ELSE IF r.str = <<>>
        THEN [ok |-> FALSE, value |-> value,
              errs |-> Append(r.errs, newError(posFromNode(val),
                                  "`%s' value in %s `%s' cannot be blank",
                                  <<nodeType>>, <<name, id>>))]
        ELSE [ok |-> TRUE, value |-> r.str, errs |-> r.errs]

workflowAttribute(name, workflow, item, errs) ==
    CASE name = kwOn ->
           LET r == parseRequiredString(workflow.On, item.val, "workflow", name,
                                        workflow.Identifier, errs)
           IN  [workflow |-> [workflow EXCEPT !.On = r.value,
                                              !.OnPos = IF r.ok THEN posFromItem(item)
                                                        ELSE @],
                errs |-> r.errs]
      [] name = kwResolves ->
           LET e1 == IF ~workflow.ResolvesNil
                     THEN Append(errs, newWarning(posFromNode(item.val),
                                     "`resolves' redefined in workflow `%s'",
                                     <<>>, <<workflow.Identifier>>))
                     ELSE errs
               r == literalToStringArray(item.val, TRUE, e1)
           IN  [workflow |-> [workflow EXCEPT !.Resolves = r.arr,
                                              !.ResolvesNil = ~r.ok,
                                              !.ResolvesPos = posFromItem(item)],
                errs |-> IF r.ok THEN r.errs
                         ELSE Append(r.errs, newError(posFromNode(item.val),
                                  "Invalid format for `resolves' in workflow `%s', expected list of strings",
                                  <<>>, <<workflow.Identifier>>))]
      [] OTHER ->
           [workflow |-> workflow,
            errs |-> Append(errs, newWarning(posFromNode(item.val),
                                "Unknown workflow attribute `%s'", <<>>, <<name>>))]

RECURSIVE workflowAttributes(_, _, _, _)
workflowAttributes(items, i, workflow, errs) ==
    IF i > Len(items) THEN [workflow |-> workflow, errs |-> errs]
    ELSE LET k == identString(items[i].keys[1], errs)
             r == workflowAttribute(k.str, workflow, items[i], k.errs)
         IN  workflowAttributes(items, i + 1, r.workflow, r.errs)

workflowifyItem(item, errs) ==
    LET pre == parseBlockPreamble(item, "workflow", errs)
        r == workflowAttributes(item.val.items, 1, NewWorkflow(pre.id), pre.errs)
    IN  IF pre.isNil
        THEN [isNil |-> TRUE, workflow |-> NewWorkflow(<<>>), errs |-> pre.errs]
        ELSE [isNil |-> FALSE,
              workflow |-> [r.workflow EXCEPT !.Pos = posFromItem(item)],
              errs |-> r.errs]

(***************************************************************************)
(* The top level.  A parse state is the record ps of the fields of         *)
(* parseState, with ids the set of keys of parseRoot's identifiers map.    *)
(***************************************************************************)
\* an identifier table that only the actions fill
noteIdentifier_actionsOnly(ps, id, item) ==
    [ps EXCEPT !.Errors = IF id \in ps.ids
                          THEN Append(@, newError(posFromItem(item),
                                          "Identifier `%s' redefined", <<>>, <<id>>))
                          ELSE @,
               !.ids = IF item.keys[1].value = kwAction THEN @ \cup {id} ELSE @]

\* the tail of parseBlock: the identifier table
noteIdentifier(ps, id, item) ==
    [ps EXCEPT !.Errors = IF id \in ps.ids
                          THEN Append(@, newError(posFromItem(item),
                                          "Identifier `%s' redefined", <<>>, <<id>>))
                          ELSE @,
               !.ids = @ \cup {id}]

parseBlock(ps, item) ==
    LET c == identString(item.keys[1], ps.Errors)
        a == actionifyItem(item, c.errs)
        w == workflowifyItem(item, c.errs)
    IN  IF Len(item.keys) # 2
        THEN [ps EXCEPT !.Errors = Append(@, newError(posFromItem(item),
                                             "Invalid toplevel declaration", <<>>, <<>>))]
        ELSE CASE c.str = kwAction ->
                    noteIdentifier(
                        [ps EXCEPT !.Actions = IF a.isNil THEN @ ELSE Append(@, a.action),
                                   !.Errors = a.errs],
                        IF a.isNil THEN <<>> ELSE a.action.Identifier, item)
               [] c.str = kwWorkflow ->
                    noteIdentifier(
                        [ps EXCEPT !.Workflows = IF w.isNil THEN @
                                                 ELSE Append(@, w.workflow),
                                   !.Errors = w.errs],
                        IF w.isNil THEN <<>> ELSE w.workflow.Identifier, item)
               [] OTHER ->
                    [ps EXCEPT !.Errors = Append(c.errs, newError(posFromItem(item),
                                              "Invalid toplevel keyword, `%s'",
                                              <<>>, <<c.str>>))]

\* a version accepted wherever it stands, whatever its number
parseVersion_anywhere(ps, idx, item) ==
    LET k == identString(item.keys[1], ps.Errors)
        r == literalToInt(item.val, k.errs)
    IN  IF Len(item.keys) # 1 \/ k.str # kwVersion
        THEN [ps EXCEPT !.Errors = Append(k.errs, newError(posFromNode(item.val),
                                "Toplevel declarations cannot be assignments", <<>>, <<>>))]
        ELSE IF ~r.ok THEN [ps EXCEPT !.Errors = r.errs]
        ELSE [ps EXCEPT !.Errors = r.errs, !.Version = r.num]

\* idx is the 0-based index of the item among the top-level items (the two
\* messages about `version' close their quotation with ' here, not with `)
parseVersion(ps, idx, item) ==
    LET k == identString(item.keys[1], ps.Errors)
        r == literalToInt(item.val, k.errs)
    IN  IF Len(item.keys) # 1
        THEN [ps EXCEPT !.Errors = Append(@, newError(posFromNode(item.val),
                                "Toplevel declarations cannot be assignments", <<>>, <<>>))]
        ELSE IF k.str # kwVersion
        THEN [ps EXCEPT !.Errors = Append(k.errs, newError(posFromNode(item.val),
                                "Toplevel declarations cannot be assignments", <<>>, <<>>))]
        ELSE IF idx # 0
        THEN [ps EXCEPT !.Errors = Append(k.errs, newError(posFromNode(item.val),
                                "`version' must be the first declaration", <<>>, <<>>))]
        ELSE IF ~r.ok THEN [ps EXCEPT !.Errors = r.errs]
        ELSE IF r.num < minVersion \/ r.num > maxVersion
        THEN [ps EXCEPT !.Errors = Append(r.errs, newError(posFromNode(item.val),
                                "`version = %d' is not supported", <<>>, <<Itoa(r.num)>>))]
        ELSE [ps EXCEPT !.Errors = r.errs, !.Version = r.num]

\* one iteration of the loop of parseRoot
parseRootItem(ps, idx, item) ==
    IF item.assign THEN parseVersion(ps, idx, item) ELSE parseBlock(ps, item)

(***************************************************************************)
(* Validation.                                                             *)
(***************************************************************************)
\* a map that misses the last action of the file
makeActionMap_missesLast(actions) ==
    {actions[i].Identifier : i \in DOMAIN actions \ {Len(actions)}}

\* the keys of makeActionMap(actions)
makeActionMap(actions) == {actions[i].Identifier : i \in DOMAIN actions}

RECURSIVE uniqLoop(_, _, _)
uniqLoop(items, i, ret) ==
    IF i > Len(items) THEN ret
    ELSE uniqLoop(items, i + 1,
                  IF items[i] \in Range(ret) THEN ret ELSE Append(ret, items[i]))

\* the last occurrence of every name kept, not the first
uniqStrings_keepsLast(items) ==
    LET keep == SelectSeq([i \in DOMAIN items |-> i],
                          LAMBDA i : ~\E j \in (i + 1)..Len(items) : items[j] = items[i])
    IN  [k \in DOMAIN keep |-> items[keep[k]]]

uniqStrings(items) == uniqLoop(items, 1, <<>>)

RECURSIVE analyzeNeedsLoop(_, _, _, _)
analyzeNeedsLoop(action, actionmap, i, errs) ==
    IF i > Len(action.Needs) THEN errs
    ELSE analyzeNeedsLoop(action, actionmap, i + 1,
             IF action.Needs[i] \in actionmap THEN errs
             ELSE Append(errs, newError(action.NeedsPos,
                             "Action `%s' needs nonexistent action `%s'",
                             <<>>, <<action.Identifier, action.Needs[i]>>)))

\* the needs list deduplicated before it is checked
analyzeNeeds_afterDedup(action, actionmap, errs) ==
    analyzeNeedsLoop([action EXCEPT !.Needs = uniqStrings(@)], actionmap, 1, errs)

analyzeNeeds(action, actionmap, errs) == analyzeNeedsLoop(action, actionmap, 1, errs)

RECURSIVE analyzeAllNeeds(_, _, _, _)
analyzeAllNeeds(actions, actionmap, i, errs) ==
    IF i > Len(actions) THEN errs
    ELSE analyzeAllNeeds(actions, actionmap, i + 1,
                         analyzeNeeds(actions[i], actionmap, errs))

analyzeDependencies(ps) ==
    [ps EXCEPT
       !.Errors = analyzeAllNeeds(ps.Actions, makeActionMap(ps.Actions), 1, @),
       !.Actions = [i \in DOMAIN @ |->
                      IF Len(@[i].Needs) >= 2
                      THEN [@[i] EXCEPT !.Needs = uniqStrings(@)]
                      ELSE @[i]]]

\* actionmap of checkCircularDependencies: a later action with the same
\* identifier overwrites the entry of an earlier one (indexes are 1-based)
cycleActionMap(actions) ==
    [id \in makeActionMap(actions) |->
       CHOOSE i \in DOMAIN actions :
           /\ actions[i].Identifier = id
           /\ \A j \in DOMAIN actions : actions[j].Identifier = id => j <= i]

RECURSIVE adjOf(_, _, _, _)
adjOf(needs, actionmap, i, ret) ==
    IF i > Len(needs) THEN ret
    ELSE adjOf(needs, actionmap, i + 1,
               IF needs[i] \in DOMAIN actionmap
               THEN Append(ret, actionmap[needs[i]]) ELSE ret)

adjacencyList(actions) ==
    [i \in DOMAIN actions |-> adjOf(actions[i].Needs, cycleActionMap(actions), 1, <<>>)]

\* graph.Directed.Cycles: the elementary cycles, each emitted from its
\* least node s along the arcs, found by a depth-first walk from s over
\* the nodes >= s that takes the arcs of a node in the order of its
\* adjacency list; one emission per walk that returns to s
RECURSIVE cyclesFrom(_, _, _, _)
cyclesFrom(adj, s, path, k) ==
    LET v == path[Len(path)]
        w == adj[v][k]
    IN  IF k > Len(adj[v]) THEN <<>>
        ELSE (IF w = s THEN <<path>>
              ELSE IF w > s /\ w \notin Range(path)
              THEN cyclesFrom(adj, s, Append(path, w), 1)
              ELSE <<>>)
             \o cyclesFrom(adj, s, path, k + 1)

RECURSIVE cyclesLoop(_, _)
cyclesLoop(adj, s) ==
    IF s > Len(adj) THEN <<>>
    ELSE cyclesFrom(adj, s, <<s>>, 1) \o cyclesLoop(adj, s + 1)

Cycles(adj) == cyclesLoop(adj, 1)

\* the diagnostic names the last action of the cycle
cycleError_namesLast(actions, cycle) ==
    newFatal(actions[cycle[Len(cycle)]].NeedsPos, "Circular dependency on `%s'",
             <<>>, <<actions[cycle[Len(cycle)]].Identifier>>)

\* the diagnostic stands at the needs of the first action of the cycle
cycleError_atStart(actions, cycle) ==
    newFatal(actions[cycle[1]].NeedsPos, "Circular dependency on `%s'",
             <<>>, <<actions[cycle[1]].Identifier>>)

cycleError(actions, cycle) ==
    newFatal(actions[cycle[Len(cycle)]].NeedsPos, "Circular dependency on `%s'",
             <<>>, <<actions[cycle[1]].Identifier>>)

checkCircularDependencies(ps) ==
    LET cycles == Cycles(adjacencyList(ps.Actions))
    IN  [ps EXCEPT !.Errors = @ \o [c \in DOMAIN cycles |->
                                       cycleError(ps.Actions, cycles[c])]]

\* envVarChecker: \A[A-Za-z_][A-Za-z_0-9]*\z
LetterChars == Range(UpperChars) \cup Range(LowerChars) \cup {"_"}
WordChars == LetterChars \cup Range(DigitChars)
envVarChecker(key) ==
    /\ Len(key) >= 1
    /\ key[1] \in LetterChars
    /\ \A i \in 2..Len(key) : key[i] \in WordChars

\* the second test made only when the first one passed
checkEnvironmentVariable_oneWarningAtMost(key, line, errs) ==
    IF key # <<"G","I","T","H","U","B","_","T","O","K","E","N">>
       /\ HasPrefix(key, <<"G","I","T","H","U","B","_">>)
    THEN Append(errs, newWarning(line,
             "Environment variables and secrets beginning with `GITHUB_' are reserved",
             <<>>, <<>>))
    ELSE IF ~envVarChecker(key)
    THEN Append(errs, newWarning(line,
             "Environment variables and secrets must contain only A-Z, a-z, 0-9, and _ characters, got `%s'",
             <<>>, <<key>>))
    ELSE errs

checkEnvironmentVariable(key, line, errs) ==
    LET e1 == IF key # <<"G","I","T","H","U","B","_","T","O","K","E","N">>
                 /\ HasPrefix(key, <<"G","I","T","H","U","B","_">>)
              THEN Append(errs, newWarning(line,
                       "Environment variables and secrets beginning with `GITHUB_' are reserved",
                       <<>>, <<>>))
              ELSE errs
    IN  IF ~envVarChecker(key)
        THEN Append(e1, newWarning(line,
                 "Environment variables and secrets must contain only A-Z, a-z, 0-9, and _ characters, got `%s'",
                 <<>>, <<key>>))
        ELSE e1

\* an ERROR for every new name past the ceiling
countSecrets_everyNameOver(t, st) ==
    LET seenBefore(i) == st.secrets \cup {t.Secrets[j] : j \in 1..(i - 1)}
        D(i) == IF /\ t.Secrets[i] \notin seenBefore(i)
                   /\ Cardinality(seenBefore(i) \cup {t.Secrets[i]}) > maxSecrets
                THEN <<newError(t.SecretsPos,
                           "All actions combined must not have more than %d unique secrets",
                           <<>>, <<Itoa(maxSecrets)>>)>>
                ELSE <<>>
    IN  [secrets |-> st.secrets \cup Range(t.Secrets),
         errs |-> st.errs \o Emitted(Len(t.Secrets), 1, [i \in DOMAIN t.Secrets |-> D(i)])]

\* the loop over t.Secrets that counts the distinct secrets of the file:
\* seenBefore(i) is the map secrets when iteration i starts, and iteration
\* i appends the diagnostic when it makes the map maxSecrets+1 names large;
\* st is [secrets, errs]
countSecrets(t, st) ==
    LET seenBefore(i) == st.secrets \cup {t.Secrets[j] : j \in 1..(i - 1)}
        D(i) == IF /\ t.Secrets[i] \notin st.secrets
                   /\ \A j \in 1..(i - 1) : t.Secrets[j] # t.Secrets[i]
                   /\ Cardinality(seenBefore(i) \cup {t.Secrets[i]}) = maxSecrets + 1
                THEN <<newError(t.SecretsPos,
                           "All actions combined must not have more than %d unique secrets",
                           <<>>, <<Itoa(maxSecrets)>>)>>
                ELSE <<>>
    IN  [secrets |-> st.secrets \cup Range(t.Secrets),
         errs |-> st.errs \o Emitted(Len(t.Secrets), 1, [i \in DOMAIN t.Secrets |-> D(i)])]

\* the loop over the keys of t.Env, in the order keys the map yields them
RECURSIVE checkEnvKeys(_, _, _, _)
checkEnvKeys(t, keys, i, errs) ==
    IF i > Len(keys) THEN errs
    ELSE checkEnvKeys(t, keys, i + 1, checkEnvironmentVariable(keys[i], t.EnvPos, errs))

\* a name seen before draws the WARNING only, not the ERROR again
checkSecretNames_conflictOnce(t, errs) ==
    LET D(i) ==
          LET k == t.Secrets[i]
              e1 == checkEnvironmentVariable(k, t.SecretsPos, <<>>)
          IN  IF \E j \in 1..(i - 1) : t.Secrets[j] = k
              THEN Append(e1, newWarning(t.SecretsPos, "Secret `%s' redefined",
                                         <<>>, <<k>>))
              ELSE IF k \in DOMAIN t.Env
              THEN Append(e1, newError(t.SecretsPos,
                       "Secret `%s' conflicts with an environment variable with the same name",
                       <<>>, <<k>>))
              ELSE e1
    IN  errs \o Emitted(Len(t.Secrets), 4, [i \in DOMAIN t.Secrets |-> D(i)])

\* the loop over t.Secrets that checks each name; secretVars[k] is set
\* when an earlier iteration had the name k
checkSecretNames(t, errs) ==
    LET D(i) ==
          LET k == t.Secrets[i]
              e1 == checkEnvironmentVariable(k, t.SecretsPos, <<>>)
              e2 == IF k \in DOMAIN t.Env
                    THEN Append(e1, newError(t.SecretsPos,
                             "Secret `%s' conflicts with an environment variable with the same name",
                             <<>>, <<k>>))
                    ELSE e1
          IN  IF \E j \in 1..(i - 1) : t.Secrets[j] = k
              THEN Append(e2, newWarning(t.SecretsPos, "Secret `%s' redefined",
                                         <<>>, <<k>>))
              ELSE e2
    IN  errs \o Emitted(Len(t.Secrets), 4, [i \in DOMAIN t.Secrets |-> D(i)])

\* the body of the loop of checkActions for one action
checkAction(t, envKeys, st) ==
    LET e1 == IF t.Uses.Raw = <<>>
              THEN Append(st.errs, newError(t.Pos,
                              "Action `%s' must have a `uses' attribute",
                              <<>>, <<t.Identifier>>))
              ELSE st.errs
        c == countSecrets(t, [secrets |-> st.secrets, errs |-> e1])
        e2 == checkEnvKeys(t, envKeys, 1, c.errs)
    IN  [secrets |-> c.secrets, errs |-> checkSecretNames(t, e2)]

RECURSIVE checkActionsLoop(_, _, _, _)
checkActionsLoop(actions, envOrder, i, st) ==
    IF i > Len(actions) THEN st
    ELSE checkActionsLoop(actions, envOrder, i + 1,
                          checkAction(actions[i], envOrder[i], st))

\* envOrder[i] is the order in which the map Actions[i].Env yields its keys
checkActions(ps, envOrder) ==
    [ps EXCEPT !.Errors =
        checkActionsLoop(ps.Actions, envOrder, 1, [secrets |-> {}, errs |-> @]).errs]

\* the orders a map can yield its keys in: every arrangement of them
Perms(S) == {p \in [1..Cardinality(S) -> S] : \A x \in S : \E i \in DOMAIN p : p[i] = x}
EnvOrders(actions) ==
    {o \in [DOMAIN actions -> UNION {Perms(DOMAIN actions[i].Env) : i \in DOMAIN actions}] :
        \A i \in DOMAIN actions : o[i] \in Perms(DOMAIN actions[i].Env)}

\* model.IsAllowedEventType: the name, lower-cased, is on the allow-list
AllowedEventTypes ==
    {<<"p","u","s","h">>, <<"p","u","l","l","_","r","e","q","u","e","s","t">>,
     <<"i","s","s","u","e","s">>, <<"r","e","l","e","a","s","e">>}
IsAllowedEventType(on) == ToLower(on) \in AllowedEventTypes

RECURSIVE checkResolves(_, _, _, _)
checkResolves(f, actionmap, i, errs) ==
    IF i > Len(f.Resolves) THEN errs
    ELSE checkResolves(f, actionmap, i + 1,
             IF f.Resolves[i] \in actionmap THEN errs
             ELSE Append(errs, newError(f.ResolvesPos,
                             "Workflow `%s' resolves unknown action `%s'",
                             <<>>, <<f.Identifier, f.Resolves[i]>>)))

\* the allow-list consulted for a blank on as well
checkFlow_bothTests(f, actionmap, errs) ==
    LET e1 == IF f.On = <<>>
              THEN Append(errs, newError(f.Pos, "Workflow `%s' must have an `on' attribute",
                                         <<>>, <<f.Identifier>>))
              ELSE errs
        e2 == IF ~IsAllowedEventType(f.On)
              THEN Append(e1, newError(f.OnPos,
                              "Workflow `%s' has unknown `on' value `%s'",
                              <<>>, <<f.Identifier, f.On>>))
              ELSE e1
    IN  checkResolves(f, actionmap, 1, e2)

checkFlow(f, actionmap, errs) ==
    LET e1 == IF f.On = <<>>
              THEN Append(errs, newError(f.Pos, "Workflow `%s' must have an `on' attribute",
                                         <<>>, <<f.Identifier>>))
              ELSE IF ~IsAllowedEventType(f.On)
              THEN Append(errs, newError(f.OnPos,
                              "Workflow `%s' has unknown `on' value `%s'",
                              <<>>, <<f.Identifier, f.On>>))
              ELSE errs
    IN  checkResolves(f, actionmap, 1, e1)

RECURSIVE checkFlowsLoop(_, _, _, _)
checkFlowsLoop(flows, actionmap, i, errs) ==
    IF i > Len(flows) THEN errs
    ELSE checkFlowsLoop(flows, actionmap, i + 1, checkFlow(flows[i], actionmap, errs))

checkFlows(ps) ==
    [ps EXCEPT !.Errors = checkFlowsLoop(ps.Workflows, makeActionMap(ps.Actions), 1, @)]

\* sort.Stable by Pos.Line: each diagnostic goes behind those before it
\* whose line is not greater
\* an insertion that puts e before the diagnostics of its own line
RECURSIVE insertStable_beforeTies(_, _)
insertStable_beforeTies(sorted, e) ==
    IF sorted = <<>> THEN <<e>>
    ELSE IF sorted[Len(sorted)].Line < e.Line THEN Append(sorted, e)
    ELSE Append(insertStable_beforeTies(SubSeq(sorted, 1, Len(sorted) - 1), e),
                sorted[Len(sorted)])

RECURSIVE insertStable(_, _)
insertStable(sorted, e) ==
    IF sorted = <<>> THEN <<e>>
    ELSE IF sorted[Len(sorted)].Line <= e.Line THEN Append(sorted, e)
    ELSE Append(insertStable(SubSeq(sorted, 1, Len(sorted) - 1), e), sorted[Len(sorted)])

RECURSIVE sortLoop(_, _, _)
sortLoop(errs, i, sorted) ==
    IF i > Len(errs) THEN sorted
    ELSE sortLoop(errs, i + 1, insertStable(sorted, errs[i]))

\* the list as the passes collected it
SortErrors_unsorted(errs) == errs

SortErrors(errs) == sortLoop(errs, 1, <<>>)

(***************************************************************************)
(* Parse: the pass/fail decision.  opt is the option Parse was called      *)
(* with; a diagnostic at or above the threshold of the option fails the    *)
(* parse.  Parse returns a Configuration and a nil error, or a nil         *)
(* Configuration and a ParserError with the actions, the workflows and the *)
(* diagnostics.                                                            *)
(***************************************************************************)
Options == {"default", "WithSuppressWarnings", "WithSuppressErrors"}

\* WithSuppressWarnings taken for the default
Threshold_warningsCount(o) ==
    IF o = "WithSuppressErrors" THEN FATAL ELSE WARNING

Threshold(o) == CASE o = "default" -> WARNING
                  [] o = "WithSuppressWarnings" -> ERROR
                  [] o = "WithSuppressErrors" -> FATAL

NoResult ==
    [returned |-> FALSE, configNil |-> TRUE, errNil |-> TRUE, Version |-> 0,
     Actions |-> <<>>, Workflows |-> <<>>, Errors |-> <<>>]

ParseResult(ps, o) ==
    IF \E i \in DOMAIN ps.Errors : ps.Errors[i].Severity >= Threshold(o)
    THEN [returned |-> TRUE, configNil |-> TRUE, errNil |-> FALSE, Version |-> 0,
          Actions |-> ps.Actions, Workflows |-> ps.Workflows, Errors |-> ps.Errors]
    ELSE [returned |-> TRUE, configNil |-> FALSE, errNil |-> TRUE,
          Version |-> ps.Version,
          Actions |-> ps.Actions, Workflows |-> ps.Workflows, Errors |-> <<>>]

NewParseState ==
    [Version |-> 0, Actions |-> <<>>, Workflows |-> <<>>, Errors |-> <<>>, ids |-> {}]

\* parseRoot: the loop over the top-level items, from item i + 1 on
RECURSIVE parseRootLoop(_, _, _)
parseRootLoop(items, i, st) ==
    IF i >= Len(items) THEN st
    ELSE parseRootLoop(items, i + 1, parseRootItem(st, i, items[i + 1]))

parseOnly(items) == parseRootLoop(items, 0, NewParseState)

\* validate, with the order in which the env maps yield their keys
validate(st, envOrder) ==
    checkFlows(checkActions(checkCircularDependencies(analyzeDependencies(st)), envOrder))

parseAndValidate(items, envOrder) ==
    LET st == validate(parseOnly(items), envOrder)
    IN  [st EXCEPT !.Errors = SortErrors(@)]

\* one step of the pipeline for a call c = [input, pc, idx, ...] whose
\* parseState is st: the step, the item counter and the parseState after
\* it, and what the call returns once it has returned
callStep(c, st, envOrder) ==
    CASE c.pc = "parseRoot" ->
           IF c.idx < Len(c.input)
           THEN [input |-> c.input, pc |-> "parseRoot", idx |-> c.idx + 1,
                 ps |-> parseRootItem(st, c.idx, c.input[c.idx + 1]), result |-> c.result]
           ELSE [input |-> c.input, pc |-> "analyzeDependencies", idx |-> c.idx, ps |-> st, result |-> c.result]
      [] c.pc = "analyzeDependencies" ->
           [input |-> c.input, pc |-> "checkCircularDependencies", idx |-> c.idx,
            ps |-> analyzeDependencies(st), result |-> c.result]
      [] c.pc = "checkCircularDependencies" ->
           [input |-> c.input, pc |-> "checkActions", idx |-> c.idx,
            ps |-> checkCircularDependencies(st), result |-> c.result]
      [] c.pc = "checkActions" ->
           [input |-> c.input, pc |-> "checkFlows", idx |-> c.idx,
            ps |-> checkActions(st, envOrder), result |-> c.result]
      [] c.pc = "checkFlows" ->
           [input |-> c.input, pc |-> "sort", idx |-> c.idx, ps |-> checkFlows(st), result |-> c.result]
      [] c.pc = "sort" ->
           [input |-> c.input, pc |-> "return", idx |-> c.idx,
            ps |-> [st EXCEPT !.Errors = SortErrors(@)], result |-> c.result]
      [] c.pc = "return" ->
           [input |-> c.input, pc |-> "done", idx |-> c.idx, ps |-> st, result |-> ParseResult(st, "default")]

\* every call works on the parseState of some other call
ownState_packageLevel(own, other) == other

\* the parseState a call works on: parseOnly allocates one for the call,
\* with its own Errors, identifier table and posMap
ownState(own, other) == own

\* no second call
NoPeer ==
    [input |-> <<>>, pc |-> "absent", idx |-> 0, ps |-> NewParseState, result |-> NoResult]

\* what Parse returns when hcl.ParseBytes fails with a PosError: an empty
\* Configuration and the one diagnostic made of the error of the reader,
\* at the line (here 1) the reader stopped at
syntaxError(ps) ==
    [ps EXCEPT !.Errors = <<newError(1, "%s", <<>>, <<<<"s","y","n","t","a","x">>>>)>>]

(***************************************************************************)
(* The state machine: one call of Parse on one syntax tree.                *)
(***************************************************************************)
VARIABLES
    input,    \* the top-level items of the syntax tree (root.Node)
    opt,      \* the option of the call
    pc,       \* the step of the pipeline that runs next
    idx,      \* parseRoot: the number of top-level items done
    ps,       \* the parseState
    result,   \* what Parse returned
    hclError, \* hcl.ParseBytes rejects the bytes: there is no syntax tree
    peer      \* a second call of Parse running at the same time, if any

vars == <<input, opt, pc, idx, ps, result, hclError, peer>>

\* the bytes the reader rejects stand for no tree: input is empty then
Start(files, options) ==
    /\ input \in files
    /\ hclError \in (IF input = <<>> THEN BOOLEAN ELSE {FALSE})
    /\ opt \in options
    /\ pc = "parseRoot"
    /\ idx = 0
    /\ ps = NewParseState
    /\ result = NoResult
    /\ peer = NoPeer

SyntaxError ==
    /\ pc = "parseRoot"
    /\ hclError
    /\ ps' = syntaxError(ps)
    /\ pc' = "return"
    /\ UNCHANGED <<input, opt, idx, result, hclError, peer>>

\* after the last item the loop starts over with the first one
ParseRoot_startsOver ==
    /\ pc = "parseRoot"
    /\ ~hclError
    /\ IF idx < Len(input)
       THEN /\ ps' = parseRootItem(ps, idx, input[idx + 1])
            /\ idx' = idx + 1
            /\ pc' = pc
       ELSE /\ ps' = NewParseState
            /\ idx' = 0
            /\ pc' = pc
    /\ UNCHANGED <<input, opt, result, hclError, peer>>

\* parseRoot: one iteration of its loop, or the exit from the loop
ParseRoot ==
    /\ pc = "parseRoot"
    /\ ~hclError
    /\ IF idx < Len(input)
       THEN /\ ps' = parseRootItem(ps, idx, input[idx + 1])
            /\ idx' = idx + 1
            /\ pc' = pc
       ELSE /\ pc' = "analyzeDependencies"
            /\ UNCHANGED <<ps, idx>>
    /\ UNCHANGED <<input, opt, result, hclError, peer>>

AnalyzeDependencies ==
    /\ pc = "analyzeDependencies"
    /\ ps' = analyzeDependencies(ps)
    /\ pc' = "checkCircularDependencies"
    /\ UNCHANGED <<input, opt, idx, result, hclError, peer>>

CheckCircularDependencies ==
    /\ pc = "checkCircularDependencies"
    /\ ps' = checkCircularDependencies(ps)
    /\ pc' = "checkActions"
    /\ UNCHANGED <<input, opt, idx, result, hclError, peer>>

CheckActions ==
    /\ pc = "checkActions"
    /\ \E envOrder \in EnvOrders(ps.Actions) : ps' = checkActions(ps, envOrder)
    /\ pc' = "checkFlows"
    /\ UNCHANGED <<input, opt, idx, result, hclError, peer>>

CheckFlows ==
    /\ pc = "checkFlows"
    /\ ps' = checkFlows(ps)
    /\ pc' = "sort"
    /\ UNCHANGED <<input, opt, idx, result, hclError, peer>>

Sort ==
    /\ pc = "sort"
    /\ ps' = [ps EXCEPT !.Errors = SortErrors(@)]
    /\ pc' = "return"
    /\ UNCHANGED <<input, opt, idx, result, hclError, peer>>

Return ==
    /\ pc = "return"
    /\ result' = ParseResult(ps, opt)
    /\ pc' = "done"
    /\ UNCHANGED <<input, opt, idx, ps, hclError, peer>>

\* the call who as a record, and the parseState of the other call
CallOf(who) ==
    IF who = "main"
    THEN [input |-> input, pc |-> pc, idx |-> idx, ps |-> ps, result |-> result]
    ELSE peer

OtherState(who) == IF who = "main" THEN peer.ps ELSE ps

\* one step of one of the two calls
StepOf(who) ==
    /\ CallOf(who).pc \notin {"absent", "done"}
    /\ \E envOrder \in (IF CallOf(who).pc = "checkActions"
                        THEN EnvOrders(ownState(CallOf(who).ps, OtherState(who)).Actions)
                        ELSE {<<>>}) :
          \E n \in {callStep(CallOf(who), ownState(CallOf(who).ps, OtherState(who)),
                             envOrder)} :
             IF who = "main"
             THEN /\ pc' = n.pc /\ idx' = n.idx /\ ps' = n.ps /\ result' = n.result
                  /\ peer' = [peer EXCEPT !.ps = ownState(@, n.ps)]
             ELSE /\ peer' = n
                  /\ ps' = ownState(ps, n.ps)
                  /\ UNCHANGED <<pc, idx, result>>
    /\ UNCHANGED <<input, opt, hclError>>

Next ==
    \/ SyntaxError
    \/ ParseRoot
    \/ AnalyzeDependencies
    \/ CheckCircularDependencies
    \/ CheckActions
    \/ CheckFlows
    \/ Sort
    \/ Return

NextTwo == \E who \in {"main", "peer"} : StepOf(who)

(***************************************************************************)
(* Syntax trees.  A template is an item whose lines are all 0; Place puts  *)
(* a top-level item on a line of the file and each attribute of its block  *)
(* on a line of its own below it.                                          *)
(***************************************************************************)
RECURSIVE SetLine(_, _)
SetLine(node, l) ==
    [node EXCEPT !.line = l,
                 !.elems = [e \in DOMAIN @ |-> SetLine(@[e], l)],
                 !.items = [k \in DOMAIN @ |->
                              [@[k] EXCEPT !.line = l, !.val = SetLine(@, l)]]]

Place(item, base) ==
    [item EXCEPT
       !.line = base,
       !.val = IF @.kind = "object"
               THEN [@ EXCEPT !.line = base,
                              !.items = [j \in DOMAIN @ |->
                                           [@[j] EXCEPT !.line = base + j,
                                                        !.val = SetLine(@, base + j)]]]
               ELSE SetLine(@, base)]

Layout(templates) ==
    [k \in DOMAIN templates |-> Place(templates[k], (k - 1) * LineStride + 1)]

FilesOver(universe, n) ==
    {Layout(t) : t \in UNION {[1..k -> universe] : k \in 0..n}}

Str(s) == StrLit(s, 0)
StrList(ss) == ListNode([i \in DOMAIN ss |-> Str(ss[i])], 0)
Attr(name, val) == Item(<<Ident(name)>>, TRUE, val, 0)
Block(keys, attrs) == Item(keys, FALSE, ObjNode(attrs, 0), 0)
ActionBlock(id, attrs) == Block(<<Ident(kwAction), Quoted(id)>>, attrs)
WorkflowBlock(id, attrs) == Block(<<Ident(kwWorkflow), Quoted(id)>>, attrs)

idA == <<"a">>
idB == <<"b">>
idC == <<"c">>
idD == <<"d">>
idW == <<"w">>
idV == <<"v">>
usesX == <<".", "/", "x">>
onPush == <<"p","u","s","h">>
onPUSH == <<"P","U","S","H">>
secretS == <<"S">>

\* files for the pipeline as a whole: valid blocks, blocks that draw one
\* WARNING, one ERROR or one FATAL, references that resolve or dangle
\* depending on the other items of the file
MainItems ==
    { Attr(kwVersion, NumLit(0, 0)),
      ActionBlock(idA, <<Attr(kwUses, Str(usesX))>>),
      ActionBlock(idB, <<Attr(kwUses, Str(usesX)), Attr(kwNeeds, StrList(<<idA>>))>>),
      ActionBlock(idA, <<Attr(kwUses, Str(usesX)), Attr(kwNeeds, StrList(<<idB, idB>>))>>),
      ActionBlock(idC, <<Attr(kwUses, Str(usesX)),
                         Attr(kwSecrets, StrList(<<secretS, secretS>>))>>),
      ActionBlock(idC, <<>>),
      ActionBlock(idC, <<Attr(kwUses, Str(usesX)), Attr(kwNeeds, Str(idC))>>),
      WorkflowBlock(idW, <<Attr(kwOn, Str(onPush)), Attr(kwResolves, StrList(<<idA>>))>>),
      WorkflowBlock(idV, <<Attr(kwOn, Str(onPUSH)),
                           Attr(kwResolves, StrList(<<idB, idB>>))>>) }

Init == Start(FilesOver(MainItems, MaxItems), Options)

Spec == Init /\ [][Next]_vars

(***************************************************************************)
(* Files of top-level shapes: version assignments (right, wrong value,     *)
(* wrong type), another assignment, blocks with a wrong keyword, a wrong   *)
(* number of keys, an empty or unquoted name, and valid blocks that share  *)
(* or do not share an identifier.                                          *)
(***************************************************************************)
TopItems ==
    { Attr(kwVersion, NumLit(0, 0)),
      Attr(kwVersion, NumLit(1, 0)),
      Attr(kwVersion, Str(<<"0">>)),
      Attr(<<"f","o","o">>, NumLit(0, 0)),
      ActionBlock(<<>>, <<>>),
      Block(<<Ident(kwAction), Ident(idA)>>, <<Attr(kwUses, Str(usesX))>>),
      Block(<<Ident(<<"h","e","l","l","o">>), Quoted(idA)>>, <<>>),
      Block(<<Ident(kwAction), Quoted(idA), Quoted(idB)>>, <<>>),
      Block(<<Ident(kwWorkflow)>>, <<>>),
      ActionBlock(idA, <<Attr(kwUses, Str(usesX))>>),
      WorkflowBlock(idA, <<Attr(kwOn, Str(onPush))>>),
      ActionBlock(idB, <<Attr(kwUses, Str(usesX))>>) }

InitTop == Start(FilesOver(TopItems, MaxItems), {"default"})

SpecTop == InitTop /\ [][Next]_vars

(***************************************************************************)
(* Files of actions for the dependency graph: up to MaxGraphActions        *)
(* actions, every way of sharing identifiers among them (up to renaming),  *)
(* each with a needs list out of NeedsChoices.                             *)
(***************************************************************************)
GraphNames == <<idA, idB, idC, idD, <<"e">>, <<"f">>>>

NeedsChoices ==
    { <<>>, <<idA>>, <<idB>>, <<idC>>, <<idA, idB>>, <<idB, idC>>, <<idB, idB>> }

\* the k-th action carries a name already used or the first unused one
IdPatterns(n) ==
    {p \in [1..n -> 1..n] :
        \A k \in 1..n : \/ k = 1 /\ p[k] = 1
                        \/ k > 1 /\ (\E j \in 1..(k - 1) : p[j] = p[k]
                                                         \/ p[k] = p[j] + 1)
                                 /\ \A m \in 1..(p[k] - 1) : \E j \in 1..(k - 1) : p[j] = m}

GraphFiles(max) ==
    UNION {
      {Layout([k \in 1..n |->
                 ActionBlock(GraphNames[p[k]],
                             <<Attr(kwUses, Str(usesX)), Attr(kwNeeds, StrList(nd[k]))>>)]) :
          p \in IdPatterns(n), nd \in [1..n -> NeedsChoices]} :
      n \in 0..max}

InitCycles == Start(GraphFiles(MaxGraphActions), {"default"})

SpecCycles == InitCycles /\ [][Next]_vars

(***************************************************************************)
(* Files of actions with long secrets lists: up to MaxSecretActions        *)
(* actions, the secrets of each the names S<lo> .. S<hi> of one or two     *)
(* ranges out of SecretChoices.                                            *)
(***************************************************************************)
SecretName(n) == <<"S">> \o Itoa(n)
SecretRange(lo, hi) == [i \in 1..(hi - lo + 1) |-> SecretName(lo + i - 1)]

RECURSIVE SecretList(_)
SecretList(ranges) ==
    IF ranges = <<>> THEN <<>>
    ELSE SecretRange(ranges[1][1], ranges[1][2]) \o SecretList(Tail(ranges))

SecretChoices ==
    { <<<<1, 40>>>>, <<<<1, maxSecrets>>>>, <<<<1, maxSecrets + 1>>>>,
      <<<<41, maxSecrets + 2>>>>, <<<<maxSecrets + 1, maxSecrets + 1>>>>,
      <<<<1, maxSecrets>>, <<1, 2>>>>, <<<<1, 99>>, <<99, maxSecrets + 1>>>> }

SecretFiles(max) ==
    UNION {
      {Layout([k \in 1..n |->
                 ActionBlock(GraphNames[k],
                             <<Attr(kwUses, Str(usesX)),
                               Attr(kwSecrets, StrList(SecretList(sc[k])))>>)]) :
          sc \in [1..n -> SecretChoices]} :
      n \in 0..max}

InitSecrets == Start(SecretFiles(MaxSecretActions), {"default"})

SpecSecrets == InitSecrets /\ [][Next]_vars

(***************************************************************************)
(* What a file says, read off its syntax tree.                             *)
(***************************************************************************)
Keyword(it) == it.keys[1].value

\* a top-level item that is the block of an action or of a workflow with
\* a quoted, non-empty name
IsBlockOf(it, kw) ==
    /\ ~it.assign /\ Len(it.keys) = 2
    /\ it.keys[1].type = "IDENT" /\ Keyword(it) = kw
    /\ it.keys[2].type = "STRING" /\ it.keys[2].value # <<>>
    /\ it.val.kind = "object"

IsBlock(it) == IsBlockOf(it, kwAction) \/ IsBlockOf(it, kwWorkflow)
BlockName(it) == it.keys[2].value

IsStringNode(n) == n.kind = "literal" /\ n.tok = "STRING"
IsStringList(n) == n.kind = "list" /\ \A e \in DOMAIN n.elems : IsStringNode(n.elems[e])
StringsOf(n) == IF IsStringNode(n) THEN <<n.str>>
                ELSE [e \in DOMAIN n.elems |-> n.elems[e].str]

AttrsNamed(it, name) ==
    {j \in DOMAIN it.val.items : it.val.items[j].keys[1].value = name}
AttrValue(it, name) == it.val.items[CHOOSE j \in AttrsNamed(it, name) : TRUE].val

\* the line of an attribute of a block
AttrLine(it, name) == it.val.items[CHOOSE j \in AttrsNamed(it, name) : TRUE].line

\* the names an action block lists under needs, a workflow block under
\* resolves, as written
Written(it, name) ==
    IF AttrsNamed(it, name) = {} THEN <<>> ELSE StringsOf(AttrValue(it, name))

DeclaredActions(file) ==
    {BlockName(file[k]) : k \in {k \in DOMAIN file : IsBlockOf(file[k], kwAction)}}

\* every attribute is an assignment to a bare word, each word at most once
PlainAttributes(it, allowed) ==
    /\ \A j \in DOMAIN it.val.items :
          /\ isAssignment(it.val.items[j])
          /\ it.val.items[j].keys[1].type = "IDENT"
          /\ it.val.items[j].keys[1].value \in allowed
    /\ \A name \in allowed : Cardinality(AttrsNamed(it, name)) <= 1

\* an action block that obeys every rule for one action: a uses attribute
\* naming a local path, needs a string or a list of strings, secrets a
\* list of distinct variable names outside the reserved prefix
WellFormedAction(it) ==
    /\ IsBlockOf(it, kwAction)
    /\ PlainAttributes(it, {kwUses, kwNeeds, kwSecrets})
    /\ AttrsNamed(it, kwUses) # {}
    /\ IsStringNode(AttrValue(it, kwUses))
    /\ HasPrefix(AttrValue(it, kwUses).str, <<".", "/">>)
    /\ AttrsNamed(it, kwNeeds) # {} =>
          IsStringNode(AttrValue(it, kwNeeds)) \/ IsStringList(AttrValue(it, kwNeeds))
    /\ AttrsNamed(it, kwSecrets) # {} =>
          /\ IsStringList(AttrValue(it, kwSecrets))
          /\ LET ss == Written(it, kwSecrets)
             IN  \A i \in DOMAIN ss :
                    /\ envVarChecker(ss[i])
                    /\ ~HasPrefix(ss[i], <<"G","I","T","H","U","B","_">>)
                    /\ \A j \in DOMAIN ss : ss[j] = ss[i] => j = i

\* a workflow block that obeys every rule for one workflow
WellFormedWorkflow(it) ==
    /\ IsBlockOf(it, kwWorkflow)
    /\ PlainAttributes(it, {kwOn, kwResolves})
    /\ AttrsNamed(it, kwOn) # {}
    /\ IsStringNode(AttrValue(it, kwOn))
    /\ ToLower(AttrValue(it, kwOn).str) \in AllowedEventTypes
    /\ AttrsNamed(it, kwResolves) # {} =>
          IsStringNode(AttrValue(it, kwResolves)) \/ IsStringList(AttrValue(it, kwResolves))

WellFormedVersion(it) ==
    /\ it.assign /\ it.keys = <<Ident(kwVersion)>>
    /\ it.val.kind = "literal" /\ it.val.tok = "NUMBER" /\ it.val.num = 0

\* the file obeys the grammar and every rule that one block can break:
\* version = 0 first if at all, blocks of actions and workflows, no name
\* used twice
WellFormedFile(file) ==
    /\ \A k \in DOMAIN file :
          \/ k = 1 /\ WellFormedVersion(file[k])
          \/ WellFormedAction(file[k])
          \/ WellFormedWorkflow(file[k])
    /\ \A k, m \in DOMAIN file :
          IsBlock(file[k]) /\ IsBlock(file[m]) /\ BlockName(file[k]) = BlockName(file[m])
             => k = m

ReferencesResolve(file) ==
    \A k \in DOMAIN file :
       /\ IsBlockOf(file[k], kwAction) =>
             Range(Written(file[k], kwNeeds)) \subseteq DeclaredActions(file)
       /\ IsBlockOf(file[k], kwWorkflow) =>
             Range(Written(file[k], kwResolves)) \subseteq DeclaredActions(file)

\* the needs graph on the names: a needs b if the block of a lists b
NeedsArc(file, a, b) ==
    \E k \in DOMAIN file :
       /\ IsBlockOf(file[k], kwAction) /\ BlockName(file[k]) = a
       /\ b \in Range(Written(file[k], kwNeeds))

\* a walk along the arcs that comes back to where it began
AcyclicNeeds(file) ==
    LET names == DeclaredActions(file)
    IN  ~\E n \in 1..Cardinality(names) : \E w \in [1..(n + 1) -> names] :
            /\ w[1] = w[n + 1]
            /\ \A i \in 1..n : NeedsArc(file, w[i], w[i + 1])

HasSeverity(errs, sev) == \E i \in DOMAIN errs : errs[i].Severity = sev

(***************************************************************************)
(* C1.  For every input that is well-formed, whose needs and resolves      *)
(* entries all name declared actions, and whose needs graph is acyclic,    *)
(* the parse succeeds and the diagnostic list contains no ERROR and no     *)
(* FATAL diagnostic.                                                       *)
(***************************************************************************)
C1_WellFormedSucceeds ==
    (/\ pc = "done" /\ ~hclError
     /\ WellFormedFile(input) /\ ReferencesResolve(input) /\ AcyclicNeeds(input))
       => /\ result.returned /\ result.errNil /\ ~result.configNil
          /\ ~HasSeverity(ps.Errors, ERROR)
          /\ ~HasSeverity(ps.Errors, FATAL)

\* a well-formed file with a version, a chain of two actions and a
\* workflow on top has been parsed
C1_Witness ==
    /\ pc = "done" /\ ~hclError
    /\ WellFormedFile(input) /\ ReferencesResolve(input) /\ AcyclicNeeds(input)
    /\ Len(input) = MaxItems
    /\ \E k \in DOMAIN input : IsBlockOf(input[k], kwAction)
                               /\ Written(input[k], kwNeeds) # <<>>
    /\ Len(result.Actions) >= 2
    /\ result.errNil

(***************************************************************************)
(* The dependency graph of an action list: its nodes are the actions, and  *)
(* action i has an arc to action j when the needs list of i holds the      *)
(* identifier of j.  An elementary cycle is written from its least node.   *)
(***************************************************************************)
NeedsGraphArc(actions, i, j) == actions[j].Identifier \in Range(actions[i].Needs)

ElementaryCycles(actions) ==
    UNION {
      {c \in [1..n -> DOMAIN actions] :
          /\ \A i, j \in 1..n : c[i] = c[j] => i = j
          /\ \A i \in 2..n : c[1] < c[i]
          /\ \A i \in 1..(n - 1) : NeedsGraphArc(actions, c[i], c[i + 1])
          /\ NeedsGraphArc(actions, c[n], c[1])} :
      n \in 1..Len(actions)}

IsCycleDiag(e) == e.Severity = FATAL /\ e.fmt = "Circular dependency on `%s'"

CycleDiags(errs) == {i \in DOMAIN errs : IsCycleDiag(errs[i])}

CyclesChecked == pc \in {"checkActions", "checkFlows", "sort", "return", "done"}

(***************************************************************************)
(* C2.  For every action list, checkCircularDependencies emits exactly one *)
(* FATAL diagnostic per elementary cycle of the directed graph induced by  *)
(* the deduplicated needs lists: no cycle is missed and none is reported   *)
(* twice, whatever actions lie outside the cycles and however the cycles   *)
(* overlap.                                                                *)
(***************************************************************************)
C2_OneFatalPerCycle ==
    CyclesChecked =>
       Cardinality(CycleDiags(ps.Errors)) = Cardinality(ElementaryCycles(ps.Actions))

(***************************************************************************)
(* C3.  Every extracted action whose needs list contains its own           *)
(* identifier is reported as a one-node cycle: one FATAL "Circular         *)
(* dependency on <id>" is emitted for it, at its needs attribute, also in  *)
(* files where other blocks carry the same identifier.                     *)
(***************************************************************************)
C3_SelfReferenceReported ==
    CyclesChecked =>
       \A i \in DOMAIN ps.Actions :
          ps.Actions[i].Identifier \in Range(ps.Actions[i].Needs) =>
             Cardinality({k \in CycleDiags(ps.Errors) :
                             /\ ps.Errors[k].Line = ps.Actions[i].NeedsPos
                             /\ ps.Errors[k].args = <<ps.Actions[i].Identifier>>}) = 1

ExtractedBlocks(file, kw) == SelectSeq(file, LAMBDA it : IsBlockOf(it, kw))

Occurrences(seq, x) == Cardinality({i \in DOMAIN seq : seq[i] = x})

SameElements(s, t) ==
    /\ Len(s) = Len(t)
    /\ \A x \in Range(s) \cup Range(t) : Occurrences(s, x) = Occurrences(t, x)

SortedByLine(errs) ==
    \A i, j \in DOMAIN errs : i < j => errs[i].Line <= errs[j].Line

SecretsUpTo(file, k) ==
    LET blocks == ExtractedBlocks(file, kwAction)
    IN  UNION {Range(Written(blocks[m], kwSecrets)) : m \in 1..k}

IsCeilingDiag(e) ==
    /\ e.Severity = ERROR
    /\ e.fmt = "All actions combined must not have more than %d unique secrets"

ActionsChecked == pc \in {"checkFlows", "sort", "return", "done"}

(***************************************************************************)
(* C6.  Scanning the actions in declaration order and each secrets list    *)
(* from left to right, the secret-ceiling ERROR is emitted zero times when *)
(* the file has at most 100 distinct secret names and exactly once when it *)
(* has 101 or more, and that one ERROR is positioned at the secrets        *)
(* attribute of the action in which the 101st distinct name is first seen. *)
(***************************************************************************)
C6_SecretCeiling ==
    ActionsChecked =>
       LET blocks == ExtractedBlocks(input, kwAction)
           ceiling == {i \in DOMAIN ps.Errors : IsCeilingDiag(ps.Errors[i])}
       IN  IF Cardinality(SecretsUpTo(input, Len(blocks))) <= 100
           THEN ceiling = {}
           ELSE /\ Cardinality(ceiling) = 1
                /\ \E k \in DOMAIN blocks :
                      /\ Cardinality(SecretsUpTo(input, k - 1)) <= 100
                      /\ Cardinality(SecretsUpTo(input, k)) >= 101
                      /\ \A i \in ceiling : ps.Errors[i].Line = AttrLine(blocks[k], kwSecrets)

\* exactly 100 distinct names over two actions: no ceiling ERROR
C6_WitnessAtCeiling ==
    /\ ActionsChecked
    /\ Len(ExtractedBlocks(input, kwAction)) = 2
    /\ Cardinality(SecretsUpTo(input, 1)) < 100
    /\ Cardinality(SecretsUpTo(input, 2)) = 100
    /\ ~\E i \in DOMAIN ps.Errors : IsCeilingDiag(ps.Errors[i])

\* 102 distinct names, the 101st of them in the second action: one ERROR
\* at the secrets of the second action
C6_Witness ==
    /\ ActionsChecked
    /\ Len(ExtractedBlocks(input, kwAction)) = 2
    /\ Cardinality(SecretsUpTo(input, 1)) < 100
    /\ Cardinality(SecretsUpTo(input, 2)) = 102
    /\ \E i \in DOMAIN ps.Errors :
          /\ IsCeilingDiag(ps.Errors[i])
          /\ ps.Errors[i].Line = AttrLine(input[2], kwSecrets)

(***************************************************************************)
(* References to actions that do not exist.                                *)
(***************************************************************************)
\* the diagnostics about block it naming n under the attribute name
UnknownDiags(errs, it, name, fmt, n) ==
    {i \in DOMAIN errs :
        /\ errs[i].Severity = ERROR
        /\ errs[i].fmt = fmt
        /\ errs[i].Line = AttrLine(it, name)
        /\ errs[i].args = <<BlockName(it), n>>}

\* block it, the record rec made of it: every name it lists that no
\* action carries has one ERROR for each time it is listed, and is still
\* in the list of the record
DanglingReported(it, name, fmt, list) ==
    \A n \in Range(Written(it, name)) \ DeclaredActions(input) :
       /\ Cardinality(UnknownDiags(ps.Errors, it, name, fmt, n))
             = Occurrences(Written(it, name), n)
       /\ n \in Range(list)

(***************************************************************************)
(* C7.  For every occurrence of a name in the needs of an action or the    *)
(* resolves of a workflow that is not the identifier of any extracted      *)
(* action, exactly one ERROR is emitted (one per occurrence, duplicates    *)
(* included), and the name is still in the needs or resolves list of the   *)
(* returned model.                                                         *)
(***************************************************************************)
C7_DanglingReferences ==
    pc = "done" =>
       LET as == ExtractedBlocks(input, kwAction)
           ws == ExtractedBlocks(input, kwWorkflow)
       IN  /\ Len(ps.Actions) = Len(as)
           /\ Len(ps.Workflows) = Len(ws)
           /\ \A k \in DOMAIN as :
                 DanglingReported(as[k], kwNeeds,
                     "Action `%s' needs nonexistent action `%s'", ps.Actions[k].Needs)
           /\ \A k \in DOMAIN ws :
                 DanglingReported(ws[k], kwResolves,
                     "Workflow `%s' resolves unknown action `%s'", ps.Workflows[k].Resolves)

\* an action that needs a missing action twice and a workflow that
\* resolves a missing action twice, two ERRORs for each
C7_Witness ==
    /\ pc = "done"
    /\ \E k \in DOMAIN input : \E n \in Range(Written(input[k], kwNeeds)) :
          /\ IsBlockOf(input[k], kwAction)
          /\ n \notin DeclaredActions(input)
          /\ Occurrences(Written(input[k], kwNeeds), n) = 2
          /\ Cardinality(UnknownDiags(ps.Errors, input[k], kwNeeds,
                 "Action `%s' needs nonexistent action `%s'", n)) = 2
    /\ \E k \in DOMAIN input : \E n \in Range(Written(input[k], kwResolves)) :
          /\ IsBlockOf(input[k], kwWorkflow)
          /\ n \notin DeclaredActions(input)
          /\ Occurrences(Written(input[k], kwResolves), n) = 2
          /\ Cardinality(UnknownDiags(ps.Errors, input[k], kwResolves,
                 "Workflow `%s' resolves unknown action `%s'", n)) = 2

(***************************************************************************)
(* The top level, item by item.  DoneItems are the items parseRoot has     *)
(* been through; every item stands on a line of its own.                   *)
(***************************************************************************)
DoneItems == 1..idx

DiagsAt(errs, line) == {i \in DOMAIN errs : errs[i].Line = line}

IsRedefinedDiag(e, id) ==
    /\ e.Severity = ERROR
    /\ e.fmt = "Identifier `%s' redefined"
    /\ e.args = <<id>>

\* the blocks among the first k items
BlocksUpTo(file, kw, k) == ExtractedBlocks(SubSeq(file, 1, k), kw)

\* every block gone through has its record, in the order of the file
RecordsKept ==
    /\ Len(ps.Actions) = Len(BlocksUpTo(input, kwAction, idx))
    /\ \A i \in DOMAIN ps.Actions :
          ps.Actions[i].Identifier = BlockName(BlocksUpTo(input, kwAction, idx)[i])
    /\ Len(ps.Workflows) = Len(BlocksUpTo(input, kwWorkflow, idx))
    /\ \A i \in DOMAIN ps.Workflows :
          ps.Workflows[i].Identifier = BlockName(BlocksUpTo(input, kwWorkflow, idx)[i])

(***************************************************************************)
(* C8.  Actions and workflows share one namespace of identifiers: for      *)
(* every extracted block whose identifier equals that of an earlier        *)
(* extracted block of either kind, exactly one ERROR "Identifier <id>      *)
(* redefined" is emitted at the later block, none is emitted for the first *)
(* occurrence, and both records are kept in the model.                     *)
(***************************************************************************)
C8_SharedNamespace ==
    /\ RecordsKept
    /\ \A k \in DoneItems :
          IsBlock(input[k]) =>
             Cardinality({i \in DiagsAt(ps.Errors, input[k].line) :
                             IsRedefinedDiag(ps.Errors[i], BlockName(input[k]))})
               = IF \E m \in 1..(k - 1) :
                       IsBlock(input[m]) /\ BlockName(input[m]) = BlockName(input[k])
                 THEN 1 ELSE 0

\* an action, then a workflow and another action of the same name: one
\* ERROR at each of the later two, three records
C8_Witness ==
    /\ pc = "done" /\ Len(input) = 3
    /\ IsBlockOf(input[1], kwAction) /\ IsBlockOf(input[2], kwWorkflow)
    /\ IsBlockOf(input[3], kwAction)
    /\ BlockName(input[1]) = BlockName(input[2])
    /\ BlockName(input[1]) = BlockName(input[3])
    /\ Len(ps.Actions) = 2 /\ Len(ps.Workflows) = 1
    /\ Cardinality({i \in DOMAIN ps.Errors :
                       IsRedefinedDiag(ps.Errors[i], BlockName(input[1]))}) = 2

IsVersionItem(it) == it.assign /\ it.keys = <<Ident(kwVersion)>>

\* a top-level item that is neither a version assignment nor a block of
\* an action or a workflow: another assignment, a wrong keyword, a wrong
\* number of keys, a value that is no block, an empty or unquoted name
Malformed(it) == ~IsVersionItem(it) /\ ~IsBlock(it)

(***************************************************************************)
(* C9.  Each malformed top-level item (wrong keyword, wrong number of      *)
(* keys, non-block value, or empty or unquoted name) adds exactly one      *)
(* ERROR diagnostic and no record to the model, and every top-level item   *)
(* after it is still extracted; this holds for any number of malformed     *)
(* items in one file.                                                      *)
(***************************************************************************)
C9_MalformedItemOneError ==
    /\ RecordsKept
    /\ \A k \in DoneItems :
          Malformed(input[k]) =>
             /\ Cardinality(DiagsAt(ps.Errors, input[k].line)) = 1
             /\ \A i \in DiagsAt(ps.Errors, input[k].line) : ps.Errors[i].Severity = ERROR

(***************************************************************************)
(* C10.  A top-level version assignment is accepted only as the first      *)
(* top-level item and only with the integer value 0; a version at any      *)
(* later position, a non-integer value, or any other integer each produce  *)
(* exactly one ERROR, leave Configuration.Version at 0, and do not stop    *)
(* the extraction of the remaining items.                                  *)
(***************************************************************************)
C10_VersionFirstAndZero ==
    /\ ps.Version = 0
    /\ RecordsKept
    /\ \A k \in DoneItems :
          IsVersionItem(input[k]) =>
             IF k = 1 /\ input[k].val.kind = "literal" /\ input[k].val.tok = "NUMBER"
                      /\ input[k].val.num = 0
             THEN DiagsAt(ps.Errors, input[k].line) = {}
             ELSE /\ Cardinality(DiagsAt(ps.Errors, input[k].line)) = 1
                  /\ \A i \in DiagsAt(ps.Errors, input[k].line) :
                        ps.Errors[i].Severity = ERROR

\* version = 1 first, version = 0 second, then a block: an ERROR for each
\* version, none for the block, which is extracted
C10_Witness ==
    /\ pc = "done" /\ Len(input) = 3
    /\ IsVersionItem(input[1]) /\ input[1].val.num = 1
    /\ IsVersionItem(input[2]) /\ input[2].val.tok = "NUMBER" /\ input[2].val.num = 0
    /\ IsBlockOf(input[3], kwAction)
    /\ Len(ps.Errors) = 2 /\ Len(ps.Actions) = 1
    /\ ps.Version = 0

(***************************************************************************)
(* C20.  When the generic syntax reader rejects the input, Parse reports   *)
(* exactly one diagnostic, that diagnostic has severity FATAL (so that it  *)
(* fails the parse under every suppression option), and the result carries *)
(* no actions and no workflows.                                            *)
(***************************************************************************)
C20_SyntaxErrorIsFatal ==
    (pc = "done" /\ hclError) =>
       /\ Len(ps.Errors) = 1
       /\ \A i \in DOMAIN ps.Errors : ps.Errors[i].Severity = FATAL
       /\ ~result.errNil /\ result.configNil
       /\ result.Actions = <<>> /\ result.Workflows = <<>>

(***************************************************************************)
(* Files of one action with up to MaxAttrs uses attributes: paths, docker  *)
(* images, owner/repo@ref strings with and without a subpath, strings with *)
(* no "@", with two "@", with one component, a blank string, a number.     *)
(***************************************************************************)
UsesValues ==
    { Str(usesX),
      Str(<<"d","o","c","k","e","r",":","/","/","i">>),
      Str(<<"d","o","c","k","e","r",":","/","/">>),
      Str(<<"a","/","b","@","r">>),
      Str(<<"a","/","b","/","c","@","r">>),
      Str(<<"a","/","b","/","c","/","d","@","r">>),
      Str(<<"a","@","r">>),
      Str(<<"a","/","b">>),
      Str(<<"a","/","b","@","r","@","s">>),
      Str(<<"f","o","o">>),
      Str(<<>>),
      NumLit(42, 0) }

\* the empty file and the files of one action a with 1..max attributes
\* drawn from attrs
AttrFiles(attrs, max) ==
    {Layout(<<>>)} \cup
    {Layout(<<ActionBlock(idA, as)>>) : as \in UNION {[1..n -> attrs] : n \in 1..max}}

InitUses == Start(AttrFiles({Attr(kwUses, v) : v \in UsesValues}, MaxAttrs), {"default"})

SpecUses == InitUses /\ [][Next]_vars

(***************************************************************************)
(* A uses string read by hand.                                             *)
(***************************************************************************)
Positions(s, c) == {i \in DOMAIN s : s[i] = c}
Maximum(S) == CHOOSE x \in S : \A y \in S : y <= x
Minimum(S) == CHOOSE x \in S : \A y \in S : x <= y

IsRemote(s) ==
    /\ ~(Len(s) >= 2 /\ SubSeq(s, 1, 2) = <<".", "/">>)
    /\ ~(Len(s) >= 9 /\ SubSeq(s, 1, 9) = <<"d","o","c","k","e","r",":","/","/">>)

\* owner/repo[/subpath]@ref with s cut at its "@" number at: the fields
CrossRepoOf(s, at) ==
    LET left == SubSeq(s, 1, at - 1)
        p1 == Minimum(Positions(left, "/"))
        rest == SubSeq(left, p1 + 1, Len(left))
        more == Positions(rest, "/") # {}
        p2 == Minimum(Positions(rest, "/"))
    IN  [Repo |-> SubSeq(left, 1, p1 - 1) \o <<"/">> \o
                    (IF more THEN SubSeq(rest, 1, p2 - 1) ELSE rest),
         Path |-> IF more THEN <<"/">> \o SubSeq(rest, p2 + 1, Len(rest)) ELSE <<"/">>,
         Ref |-> SubSeq(s, at + 1, Len(s)),
         Image |-> <<>>,
         Raw |-> s]

\* the action blocks with exactly one uses attribute, a string that is
\* neither a path nor a docker image; k is the index of the block
\* among the top-level items and of its record among the actions
RemoteUsesBlocks ==
    {k \in DOMAIN input :
        /\ IsBlockOf(input[k], kwAction)
        /\ Cardinality(AttrsNamed(input[k], kwUses)) = 1
        /\ IsStringNode(AttrValue(input[k], kwUses))
        /\ IsRemote(AttrValue(input[k], kwUses).str)}

\* the record of block k has the fields of the string cut at "@" number
\* at and the file no diagnostic at the line of the attribute
IsCrossRepo(k, at) ==
    /\ ps.Actions[k].Uses = CrossRepoOf(AttrValue(input[k], kwUses).str, at)
    /\ Form(ps.Actions[k].Uses) = "cross_repo"
    /\ DiagsAt(ps.Errors, AttrLine(input[k], kwUses)) = {}

IsUnrecognized(k) ==
    /\ Form(ps.Actions[k].Uses) = "unknown"
    /\ Cardinality(DiagsAt(ps.Errors, AttrLine(input[k], kwUses))) = 1
    /\ \A i \in DiagsAt(ps.Errors, AttrLine(input[k], kwUses)) :
          ps.Errors[i].Severity = ERROR

\* the files of SpecUses hold one block at most
OneBlock == Len(input) <= 1

HasActionBlock == pc = "done" /\ ~hclError /\ Len(input) = 1 /\ Len(ps.Actions) = 1

TheAttrs == input[1].val.items

\* what the uses string s says on an action that had no uses yet
FreshUses(s) == parseUses(NewAction(idA, 0), Str(s), <<>>).action.Uses

\* attribute j gives the action a uses value of one of the three forms
AssignsUses(j) ==
    /\ TheAttrs[j].keys[1].value = kwUses
    /\ IsStringNode(TheAttrs[j].val)
    /\ Form(FreshUses(TheAttrs[j].val.str)) # "unknown"

DiagsLike(errs, line, sev, fmt) ==
    {i \in DiagsAt(errs, line) : errs[i].Severity = sev /\ errs[i].fmt = fmt}

(***************************************************************************)
(* C12.  Whenever an action in the model has a non-blank raw uses value    *)
(* whose form is Unrecognized (Form() returns unknown), the diagnostic     *)
(* list contains an ERROR for that uses value: an ERROR on the line of one *)
(* of the uses attributes of the action.                                   *)
(***************************************************************************)
C12_UnrecognizedHasError ==
    (HasActionBlock /\ ps.Actions[1].Uses.Raw # <<>>
                    /\ Form(ps.Actions[1].Uses) = "unknown") =>
       \E j \in DOMAIN TheAttrs :
          \E i \in DiagsAt(ps.Errors, TheAttrs[j].line) : ps.Errors[i].Severity = ERROR

(***************************************************************************)
(* C13.  Each time the uses key appears again in an action that already    *)
(* has a uses value (of any form: in-repo, cross-repo or docker image),    *)
(* exactly one WARNING "`uses' redefined" is emitted, and the action's     *)
(* Uses afterwards is the value of the later occurrence.                   *)
(***************************************************************************)
C13_UsesRedefined ==
    HasActionBlock =>
       \A j \in DOMAIN TheAttrs :
          (/\ TheAttrs[j].keys[1].value = kwUses
           /\ \E h \in 1..(j - 1) : AssignsUses(h)) =>
             /\ Cardinality(DiagsLike(ps.Errors, TheAttrs[j].line, WARNING,
                                      "`uses' redefined in action `%s'")) = 1
             /\ (j = Len(TheAttrs) /\ AssignsUses(j)) =>
                   ps.Actions[1].Uses = FreshUses(TheAttrs[j].val.str)

(***************************************************************************)
(* C14.  For every action in a parsed model, parsing that action's         *)
(* retained raw uses string on a fresh action yields a Uses value equal in *)
(* every field (repository, path, ref, image, raw) to the one stored on    *)
(* the action, including when the action's uses was assigned more than     *)
(* once.                                                                   *)
(***************************************************************************)
C14_RawRoundTrip ==
    pc = "done" =>
       \A k \in DOMAIN ps.Actions :
          FreshUses(ps.Actions[k].Uses.Raw) = ps.Actions[k].Uses

(***************************************************************************)
(* Files of one action with up to MaxAttrs runs and args attributes:       *)
(* strings of one and of two words, the blank string, lists (empty, of one *)
(* string, of a string with a blank in it, with a number in it), a number. *)
(***************************************************************************)
CommandValues ==
    { Str(<<"a"," ","b">>),
      Str(<<"x">>),
      Str(<<>>),
      StrList(<<>>),
      StrList(<<<<"c">>>>),
      StrList(<<<<"c"," ","d">>, <<"e">>>>),
      ListNode(<<NumLit(42, 0)>>, 0),
      NumLit(42, 0) }

InitCommands ==
    Start(AttrFiles({Attr(n, v) : n \in {kwRuns, kwArgs}, v \in CommandValues}, MaxAttrs),
          {"default"})

SpecCommands == InitCommands /\ [][Next]_vars

\* attribute j is a runs or args that by itself gives the action a
\* command: a list of strings, or a string (for runs a non-blank one)
AssignsCommand(j) ==
    /\ TheAttrs[j].keys[1].value \in {kwRuns, kwArgs}
    /\ \/ IsStringList(TheAttrs[j].val)
       \/ /\ IsStringNode(TheAttrs[j].val)
          /\ TheAttrs[j].keys[1].value = kwRuns => TheAttrs[j].val.str # <<>>

\* the attributes before j that gave the action a command under the key of j
EarlierCommands(j) ==
    {h \in 1..(j - 1) :
        TheAttrs[h].keys[1].value = TheAttrs[j].keys[1].value /\ AssignsCommand(h)}

\* j is the last attribute that gave the action a command under its key
IsEffective(j) ==
    /\ AssignsCommand(j)
    /\ \A h \in DOMAIN TheAttrs : j \in EarlierCommands(h) => ~AssignsCommand(h)

CommandOf(j) ==
    IF TheAttrs[j].keys[1].value = kwRuns THEN ps.Actions[1].Runs ELSE ps.Actions[1].Args

(***************************************************************************)
(* C15.  For every action in the model, a runs or args command whose       *)
(* effective value was given in list form has an empty Raw and a Parsed    *)
(* vector equal to the list verbatim, and one given as a string has Raw    *)
(* equal to that string and Parsed equal to its whitespace split; Raw is   *)
(* never left over from a different occurrence than the one that produced  *)
(* Parsed.                                                                 *)
(***************************************************************************)
C15_RawMatchesParsed ==
    HasActionBlock =>
       \A j \in DOMAIN TheAttrs :
          IsEffective(j) =>
             IF IsStringList(TheAttrs[j].val)
             THEN CommandOf(j) = [Raw |-> <<>>, Parsed |-> StringsOf(TheAttrs[j].val)]
             ELSE CommandOf(j) = [Raw |-> TheAttrs[j].val.str,
                                  Parsed |-> Fields(TheAttrs[j].val.str)]

(***************************************************************************)
(* C16.  Each time runs (or args) appears again in an action where that    *)
(* key was already successfully assigned, whatever the earlier value       *)
(* (including an empty list or a blank args string), exactly one WARNING   *)
(* "<key> redefined" is emitted and the later value becomes the command.   *)
(***************************************************************************)
C16_CommandRedefined ==
    HasActionBlock =>
       \A j \in DOMAIN TheAttrs :
          (TheAttrs[j].keys[1].value \in {kwRuns, kwArgs} /\ EarlierCommands(j) # {}) =>
             /\ Cardinality(DiagsLike(ps.Errors, TheAttrs[j].line, WARNING,
                                      "`%s' redefined in action `%s'")) = 1
             /\ IsEffective(j) =>
                   CommandOf(j).Parsed = IF IsStringList(TheAttrs[j].val)
                                         THEN StringsOf(TheAttrs[j].val)
                                         ELSE Fields(TheAttrs[j].val.str)

(***************************************************************************)
(* Files of up to MaxEnvActions actions, each with a uses, an env and a    *)
(* secrets attribute: plain names, names shared by env and secrets, names  *)
(* repeated in secrets, reserved names, GITHUB_TOKEN, names outside the    *)
(* pattern, a name both reserved and outside the pattern.                  *)
(***************************************************************************)
nameX == <<"X">>
nameY == <<"Y">>
nameZ == <<"Z">>
nameToken == <<"G","I","T","H","U","B","_","T","O","K","E","N">>
nameReserved == <<"G","I","T","H","U","B","_","F">>
nameDashed == <<"a","-","b">>
nameDigit == <<"1","A">>
nameReservedDashed == <<"G","I","T","H","U","B","_","-">>

EnvChoices ==
    { <<>>, <<nameX>>, <<nameX, nameY>>, <<nameReserved, nameToken>>,
      <<nameDashed, nameX>>, <<nameReservedDashed>>, <<nameDashed, nameReserved>> }

SecretsChoices ==
    { <<>>, <<nameX>>, <<nameX, nameY, nameX>>, <<nameZ, nameZ, nameZ>>,
      <<nameReserved, nameToken>>, <<nameDigit, nameX>>, <<nameReservedDashed>> }

EnvObject(keys) ==
    ObjNode([i \in DOMAIN keys |-> Item(<<Quoted(keys[i])>>, TRUE, Str(<<"1">>), 0)], 0)

EnvFiles(max) ==
    {Layout(<<>>)} \cup
    {Layout([k \in DOMAIN c |->
               ActionBlock(GraphNames[k],
                           <<Attr(kwUses, Str(usesX)),
                             Attr(kwEnv, EnvObject(c[k][1])),
                             Attr(kwSecrets, StrList(c[k][2]))>>)]) :
        c \in UNION {[1..n -> EnvChoices \X SecretsChoices] : n \in 1..max}}

InitEnv == Start(EnvFiles(MaxEnvActions), {"default"})

SpecEnv == InitEnv /\ [][Next]_vars

\* the env keys and the secrets of block k as the file has them
EnvWritten(k) ==
    [i \in DOMAIN AttrValue(input[k], kwEnv).items |->
        AttrValue(input[k], kwEnv).items[i].keys[1].value]
SecretsWritten(k) == StringsOf(AttrValue(input[k], kwSecrets))

\* the diagnostics of one severity, message and arguments on a line
DiagsWith(errs, line, sev, fmt, args) ==
    {i \in DiagsLike(errs, line, sev, fmt) : errs[i].args = args}

\* every block of the file is an action with env and secrets, validated
EnvChecked ==
    /\ pc = "done" /\ ~hclError
    /\ Len(ps.Actions) = Len(input)
    /\ \A k \in DOMAIN input : AttrsNamed(input[k], kwEnv) # {}
                               /\ AttrsNamed(input[k], kwSecrets) # {}

EnvKept(k) ==
    /\ DOMAIN ps.Actions[k].Env = Range(EnvWritten(k))
    /\ \A key \in DOMAIN ps.Actions[k].Env : ps.Actions[k].Env[key] = <<"1">>
    /\ ps.Actions[k].Secrets = SecretsWritten(k)

(***************************************************************************)
(* C17.  Within one action, every secrets entry whose name is also an env  *)
(* key yields an ERROR, every second-or-later occurrence of a name inside  *)
(* the secrets list yields a WARNING, and in both cases the env map and    *)
(* the secrets list (duplicates included, original order) are left         *)
(* unchanged in the model.  No other entry draws either diagnostic.        *)
(***************************************************************************)
C17_SecretCollisions ==
    EnvChecked =>
       \A k \in DOMAIN input :
          LET S == SecretsWritten(k)
              line == AttrLine(input[k], kwSecrets)
          IN  /\ \A name \in Range(S) :
                    /\ Cardinality(DiagsWith(ps.Errors, line, ERROR,
                          "Secret `%s' conflicts with an environment variable with the same name",
                          <<name>>))
                         = IF name \in Range(EnvWritten(k)) THEN Occurrences(S, name) ELSE 0
                    /\ Cardinality(DiagsWith(ps.Errors, line, WARNING,
                          "Secret `%s' redefined", <<name>>))
                         = Occurrences(S, name) - 1
              /\ Cardinality(DiagsLike(ps.Errors, line, ERROR,
                    "Secret `%s' conflicts with an environment variable with the same name"))
                   = Cardinality({i \in DOMAIN S : S[i] \in Range(EnvWritten(k))})
              /\ Cardinality(DiagsLike(ps.Errors, line, WARNING, "Secret `%s' redefined"))
                   = Len(S) - Cardinality(Range(S))
              /\ EnvKept(k)

\* a secret that is an env key and stands twice in the list: two ERRORs
\* and one WARNING, the list kept with its repetition
C17_Witness ==
    /\ EnvChecked
    /\ \E k \in DOMAIN input :
          /\ nameX \in DOMAIN ps.Actions[k].Env
          /\ ps.Actions[k].Secrets = <<nameX, nameY, nameX>>
          /\ Cardinality(DiagsWith(ps.Errors, AttrLine(input[k], kwSecrets), ERROR,
                "Secret `%s' conflicts with an environment variable with the same name",
                <<nameX>>)) = 2
          /\ Cardinality(DiagsWith(ps.Errors, AttrLine(input[k], kwSecrets), WARNING,
                "Secret `%s' redefined", <<nameX>>)) = 1

(***************************************************************************)
(* C18.  For every env key and every secrets entry of every action: a name *)
(* that starts with "GITHUB_" and is not exactly "GITHUB_TOKEN" yields a   *)
(* WARNING, a name not matching [A-Za-z_][A-Za-z_0-9]* yields a WARNING, a *)
(* name violating neither rule yields no diagnostic from this check, and   *)
(* the name stays in the model in all cases.                               *)
(***************************************************************************)
IsReservedName(name) ==
    /\ Len(name) >= 7 /\ SubSeq(name, 1, 7) = <<"G","I","T","H","U","B","_">>
    /\ name # nameToken

Letters ==
    {"A","B","C","D","E","F","G","H","I","J","K","L","M","N","O","P","Q","R","S","T",
     "U","V","W","X","Y","Z","a","b","c","d","e","f","g","h","i","j","k","l","m","n",
     "o","p","q","r","s","t","u","v","w","x","y","z","_"}
Digits == {"0","1","2","3","4","5","6","7","8","9"}
MatchesPattern(name) ==
    /\ name # <<>> /\ name[1] \in Letters
    /\ \A i \in DOMAIN name : name[i] \in Letters \cup Digits

\* on the line of a list of names: one reserved WARNING per reserved entry,
\* one pattern WARNING naming it per entry outside the pattern, no others
NamesChecked(names, line) ==
    /\ Cardinality(DiagsLike(ps.Errors, line, WARNING,
          "Environment variables and secrets beginning with `GITHUB_' are reserved"))
         = Cardinality({i \in DOMAIN names : IsReservedName(names[i])})
    /\ Cardinality(DiagsLike(ps.Errors, line, WARNING,
          "Environment variables and secrets must contain only A-Z, a-z, 0-9, and _ characters, got `%s'"))
         = Cardinality({i \in DOMAIN names : ~MatchesPattern(names[i])})
    /\ \A i \in DOMAIN names :
          ~MatchesPattern(names[i]) =>
             DiagsWith(ps.Errors, line, WARNING,
                "Environment variables and secrets must contain only A-Z, a-z, 0-9, and _ characters, got `%s'",
                <<names[i]>>) # {}

C18_NameChecks ==
    EnvChecked =>
       \A k \in DOMAIN input :
          /\ NamesChecked(EnvWritten(k), AttrLine(input[k], kwEnv))
          /\ NamesChecked(SecretsWritten(k), AttrLine(input[k], kwSecrets))
          /\ EnvKept(k)

\* a name both reserved and outside the pattern drew both WARNINGs, and
\* GITHUB_TOKEN next to a reserved name drew none
C18_Witness ==
    /\ EnvChecked
    /\ \E k \in DOMAIN input :
          /\ EnvWritten(k) = <<nameReservedDashed>>
          /\ SecretsWritten(k) = <<nameReserved, nameToken>>
          /\ Cardinality(DiagsAt(ps.Errors, AttrLine(input[k], kwEnv))) = 2
          /\ Cardinality(DiagsAt(ps.Errors, AttrLine(input[k], kwSecrets))) = 1
          /\ nameReservedDashed \in DOMAIN ps.Actions[k].Env
          /\ ps.Actions[k].Secrets = <<nameReserved, nameToken>>

(***************************************************************************)
(* Files of up to MaxBlocks blocks, named by their place in the file:      *)
(* actions with a path, with a docker image, with a blank uses, with a     *)
(* number for uses, with no uses; workflows with an allowed event in small *)
(* and in capital letters, an unknown event, a blank on, a number, no on.  *)
(***************************************************************************)
onBogus == <<"b","o","g","u","s">>

RequiredChoices ==
    { [kw |-> kwAction, attrs |-> <<Attr(kwUses, Str(usesX))>>],
      [kw |-> kwAction, attrs |-> <<Attr(kwUses, Str(<<"d","o","c","k","e","r",":","/","/","i">>))>>],
      [kw |-> kwAction, attrs |-> <<Attr(kwUses, Str(<<>>))>>],
      [kw |-> kwAction, attrs |-> <<Attr(kwUses, NumLit(42, 0))>>],
      [kw |-> kwAction, attrs |-> <<>>],
      [kw |-> kwWorkflow, attrs |-> <<Attr(kwOn, Str(onPush))>>],
      [kw |-> kwWorkflow, attrs |-> <<Attr(kwOn, Str(onPUSH))>>],
      [kw |-> kwWorkflow, attrs |-> <<Attr(kwOn, Str(onBogus))>>],
      [kw |-> kwWorkflow, attrs |-> <<Attr(kwOn, Str(<<>>))>>],
      [kw |-> kwWorkflow, attrs |-> <<Attr(kwOn, NumLit(42, 0))>>],
      [kw |-> kwWorkflow, attrs |-> <<>>] }

RequiredFiles(max) ==
    {Layout([k \in DOMAIN c |->
               Block(<<Ident(c[k].kw), Quoted(GraphNames[k])>>, c[k].attrs)]) :
        c \in UNION {[1..n -> RequiredChoices] : n \in 0..max}}

InitRequired == Start(RequiredFiles(MaxBlocks), {"default"})

SpecRequired == InitRequired /\ [][Next]_vars

\* block k says name = "..." with a non-blank string
HasNonBlank(k, name) ==
    /\ AttrsNamed(input[k], name) # {}
    /\ IsStringNode(AttrValue(input[k], name))
    /\ AttrValue(input[k], name).str # <<>>

\* the ERRORs of one message that name block k; the blocks of a file
\* of SpecRequired carry different names
BlockErrors(k, fmt) ==
    {i \in DOMAIN ps.Errors :
        /\ ps.Errors[i].Severity = ERROR /\ ps.Errors[i].fmt = fmt
        /\ ps.Errors[i].args[1] = BlockName(input[k])}

(***************************************************************************)
(* C19.  After validation, every action in the model without a non-blank   *)
(* uses value has exactly one ERROR "must have a `uses' attribute", every  *)
(* workflow without a non-blank on value has exactly one ERROR "must have  *)
(* an `on' attribute", and every workflow whose non-blank on value is not  *)
(* in the event allow-list under case-insensitive comparison has exactly   *)
(* one ERROR "unknown `on' value"; actions and workflows meeting the       *)
(* requirement get none of these.                                          *)
(***************************************************************************)
C19_RequiredAttributes ==
    (pc = "done" /\ ~hclError) =>
       \A k \in DOMAIN input :
          LET uses == Cardinality(BlockErrors(k, "Action `%s' must have a `uses' attribute"))
              on == Cardinality(BlockErrors(k, "Workflow `%s' must have an `on' attribute"))
              unknown == Cardinality(BlockErrors(k, "Workflow `%s' has unknown `on' value `%s'"))
          IN  IF IsBlockOf(input[k], kwAction)
              THEN /\ uses = IF HasNonBlank(k, kwUses) THEN 0 ELSE 1
                   /\ on = 0 /\ unknown = 0
              ELSE /\ uses = 0
                   /\ on = IF HasNonBlank(k, kwOn) THEN 0 ELSE 1
                   /\ unknown = IF /\ HasNonBlank(k, kwOn)
                                   /\ ToLower(AttrValue(input[k], kwOn).str)
                                         \notin AllowedEventTypes
                                THEN 1 ELSE 0

\* an action without uses, and a workflow with an unknown event, each
\* with its ERROR
C19_Witness ==
    /\ pc = "done" /\ ~hclError /\ Len(input) = 2
    /\ IsBlockOf(input[1], kwAction) /\ AttrsNamed(input[1], kwUses) = {}
    /\ Cardinality(BlockErrors(1, "Action `%s' must have a `uses' attribute")) = 1
    /\ IsBlockOf(input[2], kwWorkflow) /\ HasNonBlank(2, kwOn)
    /\ AttrValue(input[2], kwOn).str = onBogus
    /\ Cardinality(BlockErrors(2, "Workflow `%s' has unknown `on' value `%s'")) = 1
    /\ Cardinality(BlockErrors(2, "Workflow `%s' must have an `on' attribute")) = 0

(***************************************************************************)
(* C21.  Parsing is deterministic: two runs of the pipeline on the same    *)
(* syntax tree produce the same model and the same diagnostic list with    *)
(* the same messages, positions and severities in the same order,          *)
(* including when several diagnostics share one line (e.g. several invalid *)
(* env keys of one action).  Whatever this run produced, every run on the  *)
(* same tree produces.                                                     *)
(***************************************************************************)
C21_Deterministic ==
    (pc = "done" /\ ~hclError) =>
       \A o \in EnvOrders(parseOnly(input).Actions) : parseAndValidate(input, o) = ps

(***************************************************************************)
(* Two calls of Parse at the same time, each on a file of up to            *)
(* MaxCallItems items: an action that needs itself, an action with two     *)
(* invalid env keys, a valid action, a workflow that resolves an unknown   *)
(* action.                                                                 *)
(***************************************************************************)
CallItems ==
    { ActionBlock(idA, <<Attr(kwUses, Str(usesX)), Attr(kwNeeds, StrList(<<idA>>))>>),
      ActionBlock(idA, <<Attr(kwUses, Str(usesX)),
                         Attr(kwEnv, EnvObject(<<nameDashed, nameReserved>>))>>),
      ActionBlock(idB, <<Attr(kwUses, Str(usesX))>>),
      WorkflowBlock(idW, <<Attr(kwOn, Str(onPush)), Attr(kwResolves, StrList(<<idB>>))>>) }

InitTwo ==
    /\ input \in FilesOver(CallItems, MaxCallItems)
    /\ hclError = FALSE
    /\ opt = "default"
    /\ pc = "parseRoot"
    /\ idx = 0
    /\ ps = NewParseState
    /\ result = NoResult
    /\ peer \in {[NoPeer EXCEPT !.input = f, !.pc = "parseRoot"] :
                    f \in FilesOver(CallItems, MaxCallItems)}

SpecTwo == InitTwo /\ [][NextTwo]_vars

\* what a call on the tree items can return when it runs alone
AloneStates(items) ==
    {parseAndValidate(items, o) : o \in EnvOrders(parseOnly(items).Actions)}

NeedsLists == { <<>>, <<idA>>, <<idB>>, <<idC>>, <<idB, idB>>, <<idB, idA, idB>> }

NeedsFiles(max) ==
    UNION {
      {Layout([k \in 1..n |->
                 ActionBlock(GraphNames[k],
                             <<Attr(kwUses, Str(usesX)), Attr(kwNeeds, StrList(nd[k]))>>)]) :
          nd \in [1..n -> NeedsLists]} :
      n \in 0..max}

InitNeeds == Start(NeedsFiles(MaxNeedsActions), {"default"})

SpecNeeds == InitNeeds /\ [][Next]_vars

(***************************************************************************)
(* Cycles and their diagnostics.  A cycle of ElementaryCycles is written   *)
(* from its member declared earliest in the file along the needs edges.    *)
(***************************************************************************)
DistinctIdentifiers(actions) ==
    \A i, j \in DOMAIN actions : actions[i].Identifier = actions[j].Identifier => i = j

Latest(c) == Maximum(Range(c))

(***************************************************************************)
(* C24.  For each reported cycle, the FATAL diagnostic names the cycle's   *)
(* starting action, which is the member of the cycle declared earliest in  *)
(* the file, and is positioned at the needs attribute of the last action   *)
(* of the cycle when the cycle is followed along needs edges from that     *)
(* starting action.  Where the actions carry different names every cycle   *)
(* has such a diagnostic.                                                  *)
(***************************************************************************)
C24_CycleNamedAndPlaced ==
    CyclesChecked =>
       /\ \A i \in CycleDiags(ps.Errors) :
             \E c \in ElementaryCycles(ps.Actions) :
                /\ ps.Errors[i].args = <<ps.Actions[c[1]].Identifier>>
                /\ ps.Errors[i].Line = ps.Actions[c[Len(c)]].NeedsPos
       /\ DistinctIdentifiers(ps.Actions) =>
             \A c \in ElementaryCycles(ps.Actions) :
                \E i \in CycleDiags(ps.Errors) :
                   /\ ps.Errors[i].args = <<ps.Actions[c[1]].Identifier>>
                   /\ ps.Errors[i].Line = ps.Actions[c[Len(c)]].NeedsPos

\* a needs c, c needs b, b needs a: the cycle a, c, b is named a and
\* reported at the needs of b, the second action of the file
C24_Witness ==
    /\ pc = "done" /\ Len(ps.Actions) = 3 /\ DistinctIdentifiers(ps.Actions)
    /\ ElementaryCycles(ps.Actions) = {<<1, 3, 2>>}
    /\ \E i \in CycleDiags(ps.Errors) :
          /\ ps.Errors[i].args = <<ps.Actions[1].Identifier>>
          /\ ps.Errors[i].Line = ps.Actions[2].NeedsPos

NeedsMessages == {"Action `%s' needs nonexistent action `%s'"}
CycleMessages == {"Circular dependency on `%s'"}
ActionMessages ==
    {"Action `%s' must have a `uses' attribute",
     "All actions combined must not have more than %d unique secrets",
     "Environment variables and secrets beginning with `GITHUB_' are reserved",
     "Environment variables and secrets must contain only A-Z, a-z, 0-9, and _ characters, got `%s'",
     "Secret `%s' conflicts with an environment variable with the same name",
     "Secret `%s' redefined"}
WorkflowMessages ==
    {"Workflow `%s' must have an `on' attribute",
     "Workflow `%s' has unknown `on' value `%s'",
     "Workflow `%s' resolves unknown action `%s'"}
ValidationMessages ==
    NeedsMessages \cup CycleMessages \cup ActionMessages \cup WorkflowMessages

OnLine(errs, line) == SelectSeq(errs, LAMBDA e : e.Line = line)

\* after is before with diagnostics added at its end, all with messages
\* of the set msgs when inside is TRUE, none of them when it is FALSE
Appends(before, after, msgs, inside) ==
    /\ Len(after) >= Len(before)
    /\ SubSeq(after, 1, Len(before)) = before
    /\ \A i \in (Len(before) + 1)..Len(after) : (after[i].fmt \in msgs) = inside

\* after is before ordered by line, the diagnostics of one line in the
\* order they have in before
StablySorted(before, after) ==
    /\ Len(after) = Len(before)
    /\ SortedByLine(after)
    /\ \A line \in {before[i].Line : i \in DOMAIN before} \cup
                   {after[i].Line : i \in DOMAIN after} :
          OnLine(after, line) = OnLine(before, line)

(***************************************************************************)
(* C23.  The returned diagnostic list is ordered by non-decreasing line    *)
(* number, and diagnostics with the same line keep their emission order:   *)
(* extraction (syntax) diagnostics before validation diagnostics, and      *)
(* validation diagnostics in the order needs-existence, cycles, per-action *)
(* checks, per-workflow checks.  Every pass adds its diagnostics at the    *)
(* end of the list, the passes run in that order, the sort keeps the order *)
(* within a line, and the sorted list is the one returned.                 *)
(***************************************************************************)
C23_SortedInEmissionOrder ==
    [][/\ pc = "parseRoot" =>
             /\ pc' \in {"parseRoot", "analyzeDependencies", "return"}
             /\ Appends(ps.Errors, ps'.Errors, ValidationMessages, FALSE)
       /\ pc = "analyzeDependencies" =>
             /\ pc' = "checkCircularDependencies"
             /\ Appends(ps.Errors, ps'.Errors, NeedsMessages, TRUE)
       /\ pc = "checkCircularDependencies" =>
             /\ pc' = "checkActions"
             /\ Appends(ps.Errors, ps'.Errors, CycleMessages, TRUE)
       /\ pc = "checkActions" =>
             /\ pc' = "checkFlows"
             /\ Appends(ps.Errors, ps'.Errors, ActionMessages, TRUE)
       /\ pc = "checkFlows" =>
             /\ pc' = "sort"
             /\ Appends(ps.Errors, ps'.Errors, WorkflowMessages, TRUE)
       /\ pc = "sort" =>
             /\ pc' = "return"
             /\ StablySorted(ps.Errors, ps'.Errors)
       /\ pc = "return" =>
             /\ pc' = "done"
             /\ ps' = ps
             /\ ~result'.errNil => result'.Errors = ps.Errors
             /\ SortedByLine(result'.Errors)]_vars

\* on one line, returned in this order: an extraction diagnostic, then a
\* validation diagnostic; and on one line a needs-existence diagnostic
\* before the diagnostic of a cycle
C23_Witness ==
    /\ pc = "done"
    /\ \E i, j \in DOMAIN result.Errors :
          /\ i < j /\ result.Errors[i].Line = result.Errors[j].Line
          /\ result.Errors[i].fmt \notin ValidationMessages
          /\ result.Errors[j].fmt \in ValidationMessages
    /\ \E i, j \in DOMAIN result.Errors :
          /\ i < j /\ result.Errors[i].Line < result.Errors[j].Line

C23_WitnessValidation ==
    /\ pc = "done"
    /\ \E i, j \in DOMAIN result.Errors :
          /\ i < j /\ result.Errors[i].Line = result.Errors[j].Line
          /\ result.Errors[i].fmt \in NeedsMessages
          /\ result.Errors[j].fmt \in CycleMessages

(***************************************************************************)
(* C26.  After validation, every action's needs list contains no name      *)
(* twice, contains exactly the set of names that were written, and keeps   *)
(* them in order of first occurrence; applying the deduplication again     *)
(* changes nothing.                                                        *)
(***************************************************************************)
FirstAt(seq, x) == Minimum(Positions(seq, x))

C26_NeedsDeduplicated ==
    (pc = "done" /\ ~hclError /\ Len(ps.Actions) = Len(input)) =>
       \A k \in DOMAIN ps.Actions :
          LET needs == ps.Actions[k].Needs
              written == Written(input[k], kwNeeds)
          IN  /\ \A i, j \in DOMAIN needs : needs[i] = needs[j] => i = j
              /\ Range(needs) = Range(written)
              /\ \A i, j \in DOMAIN needs :
                    i < j => FirstAt(written, needs[i]) < FirstAt(written, needs[j])
              /\ uniqStrings(needs) = needs

\* needs = ["b", "a", "b"] became b, a
C26_Witness ==
    /\ pc = "done"
    /\ \E k \in DOMAIN ps.Actions :
          /\ k \in DOMAIN input
          /\ Written(input[k], kwNeeds) = <<idB, idA, idB>>
          /\ ps.Actions[k].Needs = <<idB, idA>>

(***************************************************************************)
(* Files of one action with up to MaxAttrs attributes, some of them not    *)
(* assignments, some of them env objects that hold items that are not      *)
(* assignments, directly or one object further down.                       *)
(***************************************************************************)
Bare(name) == Item(<<Ident(name)>>, FALSE, ObjNode(<<>>, 0), 0)

NestedAttrs ==
    { Attr(kwUses, Str(usesX)),
      Bare(kwUses),
      Attr(kwEnv, ObjNode(<<Attr(nameX, Str(<<"1">>))>>, 0)),
      Attr(kwEnv, ObjNode(<<Bare(nameY), Attr(nameX, Str(<<"1">>))>>, 0)),
      Attr(kwEnv, ObjNode(<<Attr(nameZ, ObjNode(<<Bare(nameY)>>, 0)),
                            Attr(nameX, Str(<<"1">>))>>, 0)) }

InitNested == Start(AttrFiles(NestedAttrs, MaxAttrs), {"default"})

SpecNested == InitNested /\ [][Next]_vars

AssignmentMessages ==
    {"Each attribute of the object must be an assignment",
     "Each attribute of action `%s' must be an assignment"}

\* the items that are no assignments among items and in the objects
\* below them
RECURSIVE NonAssignments(_)
NonAssignments(items) ==
    IF items = <<>> THEN 0
    ELSE (IF ~(Len(items[1].keys) = 1 /\ items[1].assign)
          THEN 1 + NonAssignments(items[1].val.items)
          ELSE NonAssignments(items[1].val.items))
         + NonAssignments(Tail(items))

(***************************************************************************)
(* C27.  Every non-assignment item nested anywhere inside an action or     *)
(* workflow block, including inside an env object, produces exactly one    *)
(* "must be an assignment" ERROR, and the sibling items after it are still *)
(* processed.  Every attribute of the block stands on a line of its own    *)
(* with all it holds, so the ERRORs of a line are those of one attribute.  *)
(***************************************************************************)
C27_OneErrorPerNonAssignment ==
    HasActionBlock =>
       \A j \in DOMAIN TheAttrs :
          /\ Cardinality({i \in DiagsAt(ps.Errors, TheAttrs[j].line) :
                            /\ ps.Errors[i].Severity = ERROR
                            /\ ps.Errors[i].fmt \in AssignmentMessages})
               = NonAssignments(<<TheAttrs[j]>>)
          /\ (j = Len(TheAttrs) /\ TheAttrs[j].keys[1].value = kwEnv
                /\ TheAttrs[j].assign) => nameX \in DOMAIN ps.Actions[1].Env

(***************************************************************************)
(* Files of one action with up to MaxAttrs attributes, each key of an      *)
(* action with one valid value, so that any key can stand twice.           *)
(***************************************************************************)
RepeatAttrs ==
    { Attr(kwUses, Str(usesX)),
      Attr(kwNeeds, StrList(<<idA>>)),
      Attr(kwRuns, Str(<<"x">>)),
      Attr(kwArgs, Str(<<"x">>)),
      Attr(kwEnv, EnvObject(<<nameX>>)),
      Attr(kwSecrets, StrList(<<nameY>>)) }

InitRepeat == Start(AttrFiles(RepeatAttrs, MaxAttrs), {"default"})

SpecRepeat == InitRepeat /\ [][Next]_vars

RedefinedMessages ==
    {"`uses' redefined in action `%s'",
     "`%s' redefined in action `%s'",
     "`%s' redefined in %s `%s'",
     "`resolves' redefined in workflow `%s'"}

(***************************************************************************)
(* C28.  No key may appear twice in the same block: whenever any attribute *)
(* key (uses, needs, runs, args, env, secrets in an action; on, resolves   *)
(* in a workflow) occurs more than once in one block, at least one         *)
(* diagnostic reporting that redefinition is emitted, at a later           *)
(* occurrence of the key.                                                  *)
(***************************************************************************)
C28_RepeatedKeyReported ==
    HasActionBlock =>
       \A j \in DOMAIN TheAttrs :
          (\E h \in 1..(j - 1) : TheAttrs[h].keys[1].value = TheAttrs[j].keys[1].value) =>
             \E h \in DOMAIN TheAttrs :
                /\ TheAttrs[h].keys[1].value = TheAttrs[j].keys[1].value
                /\ \E i \in DiagsAt(ps.Errors, TheAttrs[h].line) :
                      ps.Errors[i].fmt \in RedefinedMessages

(***************************************************************************)
(* The action of the one block of a file after its first j attributes: the *)
(* loop of actionifyItem, stopped after j items.                           *)
(***************************************************************************)
RECURSIVE ActionAfter(_)
ActionAfter(j) ==
    IF j = 0 THEN [action |-> NewAction(BlockName(input[1]), input[1].line), errs |-> <<>>]
    ELSE parseActionAttribute(TheAttrs[j].keys[1].value, ActionAfter(j - 1).action,
                              TheAttrs[j].val, ActionAfter(j - 1).errs)

FieldOf(action, key) ==
    CASE key = kwUses -> action.Uses
      [] key = kwNeeds -> action.Needs
      [] key = kwRuns -> action.Runs
      [] key = kwArgs -> action.Args
      [] key = kwEnv -> action.Env
      [] key = kwSecrets -> action.Secrets
      [] OTHER -> <<>>

\* attribute j drew an ERROR when it was processed
FailedOccurrence(j) ==
    \E i \in (Len(ActionAfter(j - 1).errs) + 1)..Len(ActionAfter(j).errs) :
       ActionAfter(j).errs[i].Severity = ERROR

(***************************************************************************)
(* C29.  When an attribute's value fails to parse (a type or format ERROR  *)
(* is emitted for that occurrence), the corresponding field of the action  *)
(* or workflow keeps exactly the value it had before that occurrence was   *)
(* processed (the default if none): a failed occurrence neither clears an  *)
(* earlier valid value nor overwrites part of it.  This holds for uses,    *)
(* needs, runs, args, env, secrets, on and resolves.                       *)
(***************************************************************************)
C29_FailedValueKeepsField ==
    HasActionBlock =>
       /\ \A key \in {kwUses, kwRuns, kwArgs, kwEnv, kwSecrets} :
             FieldOf(ps.Actions[1], key) = FieldOf(ActionAfter(Len(TheAttrs)).action, key)
       /\ \A j \in DOMAIN TheAttrs :
             FailedOccurrence(j) =>
                FieldOf(ActionAfter(j).action, TheAttrs[j].keys[1].value)
                   = FieldOf(ActionAfter(j - 1).action, TheAttrs[j].keys[1].value)

(***************************************************************************)
(* Termination.  One call of Parse is a sequential program that runs on    *)
(* its own goroutine: a call that has not returned is not left standing at *)
(* its position for ever, which is weak fairness of Advance.  Whether the  *)
(* positions it moves through come to an end is what is checked.           *)
(* The files are those of SpecNeeds (needs edges and their cycles) and of  *)
(* SpecNested (objects below the attributes of a block), and the file the  *)
(* reader rejects.                                                         *)
(***************************************************************************)
InitLive ==
    Start(NeedsFiles(MaxNeedsActions) \cup AttrFiles(NestedAttrs, MaxAttrs), {"default"})

\* the call moves on from the position it is at
Advance ==
    /\ pc # "done"
    /\ pc' \in {"parseRoot", "analyzeDependencies", "checkCircularDependencies",
                "checkActions", "checkFlows", "sort", "return", "done"}
    /\ idx' \in 0..Len(input)

SpecLive == InitLive /\ [][Next]_vars /\ WF_<<pc, idx>>(Advance)

\* the steps a call at pc still has to take after its loop over the items
StepsAfter(p) ==
    CASE p = "parseRoot" -> 7
      [] p = "analyzeDependencies" -> 6
      [] p = "checkCircularDependencies" -> 5
      [] p = "checkActions" -> 4
      [] p = "checkFlows" -> 3
      [] p = "sort" -> 2
      [] p = "return" -> 1
      [] OTHER -> 0

\* the assignment diagnostics of the run: one or two for each item that is
\* no assignment, at any depth (see C27)
AssignmentDiags(errs) == {i \in DOMAIN errs : errs[i].fmt \in AssignmentMessages}

(***************************************************************************)
(* C30.  Every run of the pipeline (extraction, validation, cycle          *)
(* enumeration, sort) on a finite syntax tree eventually finishes: each    *)
(* top-level item is processed once (the index moves by one item in each   *)
(* iteration of parseRoot, and every step brings the call closer to its    *)
(* end), the nested-assignment check descends only into finitely many      *)
(* child objects (it reports no more than the items the tree holds), and   *)
(* the cycle enumeration stops after reporting finitely many cycles (one   *)
(* diagnostic for each elementary cycle of the needs graph).               *)
(***************************************************************************)
C30_EveryRunFinishes ==
    /\ <>(pc = "done")
    /\ [][/\ idx' = IF pc = "parseRoot" /\ ~hclError /\ idx < Len(input)
                    THEN idx + 1 ELSE idx
          /\ idx' <= Len(input)
          /\ StepsAfter(pc') + (Len(input) - idx') < StepsAfter(pc) + (Len(input) - idx)
          /\ (pc = "parseRoot" /\ pc' = "analyzeDependencies") =>
                /\ idx = Len(input)
                /\ Cardinality(AssignmentDiags(ps.Errors)) <= 2 * NonAssignments(input)
          /\ pc = "checkCircularDependencies" =>
                /\ Cardinality(CycleDiags(ps'.Errors)) - Cardinality(CycleDiags(ps.Errors))
                      = Cardinality(ElementaryCycles(ps.Actions))
                /\ Len(ps'.Errors) = Len(ps.Errors) + Cardinality(ElementaryCycles(ps.Actions))]_vars

\* a file of three actions with two cycles, and one with an object two levels
\* below its block, have been run to the end
C30_Witness ==
    /\ pc = "done" /\ ~hclError /\ idx = Len(input)
    /\ \/ /\ Len(input) = MaxNeedsActions
          /\ Cardinality(ElementaryCycles(ps.Actions)) >= 2
          /\ Cardinality(CycleDiags(ps.Errors)) >= 2
       \/ /\ HasActionBlock
          /\ \E j \in DOMAIN TheAttrs : NonAssignments(TheAttrs[j].val.items) >= 1
          /\ AssignmentDiags(ps.Errors) # {}

=============================================================================
